---- MODULE Spec2Model ----
(***************************************************************************)
(* Model of the Spotify Discord bot (src/main.py): the Mongo-backed token  *)
(* cache, the forced token refresh and the three retry-wrapped playlist    *)
(* operations of SpotifyClient.                                            *)
(***************************************************************************)
EXTENDS Integers, Sequences, FiniteSets, Bags, TLC

\* ------------------------------------------------------------------ bounds
NThreads == 2        \* executor threads running SpotifyClient methods
NTracks == 2         \* distinct track URIs in the catalogue
PageSize == 2        \* items per playlist_items page (Spotify's page limit)
MaxAccess == 1       \* access tokens the OAuth provider issues in one run
NNames == 5          \* distinct names in the spreadsheet
NSongs == 1          \* songs listed for each name
MaxExtra == 1        \* rows the spreadsheet has beyond one per name
NVoters == 2         \* users who click the poll's buttons
Window == 2          \* clock ticks that make up the view's timeout of 30 seconds

\* -------------------------------------------------------- program constants
max_retries == 3     \* _refresh_token: max_retries = 3
MaxBodyAttempts == 2 \* while attempts < 2

MaxPlaylist == PageSize + 1   \* the server refuses to grow the playlist beyond this
Threads == 1..NThreads
Tracks == 1..NTracks
NoTrack == 0         \* search without result / track_to_remove = None
NoToken == [access_token |-> -1, refresh_token |-> "absent"]   \* None
Malformed == [access_token |-> -2, refresh_token |-> "malformed"]  \* env text json.loads rejects

RefreshTokens == {"A", "B"}
Tokens == [access_token : 0..MaxAccess, refresh_token : RefreshTokens \cup {"none"}]

\* What one call into spotipy can do: return, or raise
\*   e401  SpotifyException with http_status 401
\*   ehttp SpotifyException with another status (404, 500, ...)
\*   reset an Exception whose text has "Connection aborted"/"Connection reset"
\*   exc   any other Exception
\*   eof   EOFError raised by the blocked input()
Failures == {"e401", "ehttp", "reset", "exc", "eof"}
HttpOutcomes == {"ok"} \cup Failures

Range(s) == {s[i] : i \in 1..Len(s)}

VARIABLES
  playlist,     \* the playlist on the server: sequence of track URIs
  record,       \* MongoDB document 'main_token' (token_info or NoToken)
  env_token,    \* SPOTIFY_TOKEN_CACHE: NoToken (unset), Malformed, or a token
  pc,           \* per thread: position inside the running method
  op,           \* per thread: the method running ("add", "remove", "link")
  attempts,     \* per thread: local variable attempts
  song_query,   \* per thread: argument song_query (remove_song)
  artist_query, \* per thread: argument artist_query (remove_song)
  track,        \* per thread: top search result / track_to_remove, then the track returned
  all_items,    \* per thread: remove_song's all_items while pages are still to be fetched
  rattempt,     \* per thread: _refresh_token's loop variable attempt
  result,       \* per thread: kind of the returned outcome
  \* history of the running call (observation only)
  fails,        \* per thread: the exception each try body ended with
  bodies,       \* per thread: number of times the try body was entered
  nrefresh,     \* per thread: number of _refresh_token invocations
  rlog,         \* per thread: events of the latest _refresh_token invocation
  addCalls,     \* per thread: number of playlist_add_items invocations
  wasPresent,   \* per thread, while the add is pending: the top result was in the
                \* playlist when the duplicate check ran
  exhausted,    \* some _refresh_token ran out of attempts since the last re-authorization
  invalidAtStart, \* per thread: exhausted held when the running call started
  twice,        \* two calls in a row: what the first one started from and returned
  \* start-up and the cache handler
  force_reset,  \* a force-reset flag in the environment (nothing in src/ reads one)
  mongo,        \* "up", "down" (the server cannot be reached), "baduri" (MongoClient
                \* rejects MONGODB_URI), "nouri" (MONGODB_URI is not set)
  handler,      \* the auth manager's cache handler: "unset", "mongo", "file"
  spotify,      \* the module's global spotify: "unset", "client", "none"
  cache_file,   \* the token in spotipy's default cache file, or NoToken
  got,          \* what the latest get_cached_token returned (NoToken: None or raised)
  last,         \* the latest operation on the cache and how it ended (observation only)
  \* the guessing game
  sheet,        \* the names fetch_game_data finds in the spreadsheet (one record each)
  game_history, \* GameHistoryManager: the names already picked
  active_game,  \* the global active_game: NoGame (None) or the stored round
  inv,          \* per /random invocation: position and local variables
  guessing,     \* per /guess invocation: position and outcome
  views,        \* the GuessGameView objects created so far, in order
  chosen,       \* the targets picked since the last /resetgame (observation only)
  stores,       \* the /random invocations that stored a round, in order (observation only)
  csv_rows,     \* the rows of the spreadsheet as fetch_game_data reads them
  game_data     \* what fetch_game_data has returned, once it has

\* written only by the start-up scenario
cacheVars == <<force_reset, mongo, handler, spotify, cache_file, got, last>>

\* written only by the game scenarios
\* written only by the spreadsheet scenario
fetchVars == <<csv_rows, game_data>>

gameVars == <<sheet, game_history, active_game, inv, guessing, views, chosen, stores,
              fetchVars>>

vars == <<playlist, record, env_token, pc, op, attempts, song_query, artist_query,
          track, all_items, rattempt, result, fails, bodies, nrefresh, rlog,
          addCalls, wasPresent, exhausted, invalidAtStart, twice, cacheVars, gameVars>>

\* observations that only the scenarios further down write
aux == <<twice, cacheVars, gameVars>>

\* what the playlist operations read and write, apart from the token store
gateway == <<playlist, pc, op, attempts, song_query, artist_query, track, all_items,
             rattempt, result, fails, bodies, nrefresh, rlog, addCalls, wasPresent,
             exhausted, invalidAtStart, twice>>

\* ------------------------------------------------------------- catalogue
\* Strings are sequences of characters so that lower() and `in` are computed.
Lower(c) == CASE c = "A" -> "a" [] c = "B" -> "b" [] c = "X" -> "x"
              [] c = "Y" -> "y" [] OTHER -> c
LowerStr(s) == [i \in 1..Len(s) |-> Lower(s[i])]
\* Python's  sub in s  for strings
Contains(sub, s) ==
  \E i \in 0..(Len(s) - Len(sub)) : SubSeq(s, i + 1, i + Len(sub)) = sub

TrackName(u) == IF u = 1 THEN <<"A", "b">> ELSE <<"b", "A", "b">>
TrackArtists(u) == IF u = 1 THEN << <<"X">> >> ELSE << <<"y">>, <<"X", "y">> >>
SongQueries == { <<"A">>, <<"b", "a">> }
ArtistQueries == { <<>>, <<"Y">> }     \* <<>> : no artist given

\* remove_song, lines 331-340: does the playlist track u match the query
Matches(sq, aq, u) ==
  LET track_name == LowerStr(TrackName(u))
      artist_names == [i \in 1..Len(TrackArtists(u)) |-> LowerStr(TrackArtists(u)[i])]
      song_matches == Contains(LowerStr(sq), track_name)
      artist_matches == IF aq # <<>>
                          THEN \E i \in 1..Len(artist_names) :
                                 Contains(LowerStr(aq), artist_names[i])
                          ELSE TRUE
  IN  song_matches /\ artist_matches

\* variant: without a match the loop's last candidate is taken
FirstMatch_OrLast(items, sq, aq) ==
  LET hits == {i \in 1..Len(items) : Matches(sq, aq, items[i])}
  IN  IF hits = {} THEN (IF items = <<>> THEN NoTrack ELSE items[Len(items)])
      ELSE items[CHOOSE i \in hits : \A j \in hits : i <= j]

\* remove_song, lines 325-342: first matching item in list order, or NoTrack
FirstMatch(items, sq, aq) ==
  LET hits == {i \in 1..Len(items) : Matches(sq, aq, items[i])}
  IN  IF hits = {} THEN NoTrack
      ELSE items[CHOOSE i \in hits : \A j \in hits : i <= j]

\* One page of the playlist as the server returns it (offset counts items)
Page(pl, offset) ==
  SubSeq(pl, offset + 1, IF offset + PageSize < Len(pl) THEN offset + PageSize ELSE Len(pl))
\* variant: the cursor is not followed
HasNext_Never(pl, offset) == FALSE

\* results['next'] of the page that starts at offset
HasNext(pl, offset) == offset + PageSize < Len(pl)

\* playlist_remove_all_occurrences_of_items
RECURSIVE RemoveAll(_, _)
RemoveAll(pl, u) ==
  IF pl = <<>> THEN <<>>
  ELSE IF Head(pl) = u THEN RemoveAll(Tail(pl), u)
  ELSE <<Head(pl)>> \o RemoveAll(Tail(pl), u)

\* ----------------------------------------------------------- token cache
HasRefreshToken(tok) == tok # NoToken /\ tok.refresh_token # "none"

\* MongoDBCacheHandler.save_token_to_cache: upsert of the single document
save_token_to_cache(rec, token_info) == token_info

WellFormed(env) == env # NoToken /\ env # Malformed

\* variants: the env var's token is returned without being saved ; an env var
\* with another refresh_token replaces the document ; a force-reset flag
\* makes the env var replace the document
get_cached_token_NoSave(rec, env) ==
  IF rec # NoToken THEN [tok |-> rec, rec |-> rec]
  ELSE IF WellFormed(env) THEN [tok |-> env, rec |-> rec]
  ELSE [tok |-> NoToken, rec |-> rec]
get_cached_token_EnvNewer(rec, env) ==
  IF rec # NoToken /\ ~(WellFormed(env) /\ env.refresh_token # rec.refresh_token)
    THEN [tok |-> rec, rec |-> rec]
  ELSE IF WellFormed(env) THEN [tok |-> env, rec |-> env]
  ELSE [tok |-> NoToken, rec |-> rec]
get_cached_token_Forced(rec, env) ==
  IF rec # NoToken /\ ~(WellFormed(env) /\ force_reset)
    THEN [tok |-> rec, rec |-> rec]
  ELSE IF WellFormed(env) THEN [tok |-> env, rec |-> env]
  ELSE [tok |-> NoToken, rec |-> rec]

\* MongoDBCacheHandler.get_cached_token: the returned token and the document
\* afterwards (the env var is migrated into an empty store)
get_cached_token(rec, env) ==
  IF rec # NoToken THEN [tok |-> rec, rec |-> rec]
  ELSE IF env # NoToken /\ env # Malformed
         THEN [tok |-> env, rec |-> save_token_to_cache(rec, env)]
         ELSE [tok |-> NoToken, rec |-> rec]

\* variant: the token response is saved as it came, without a refresh_token
Refreshed_Bare(tok) == [access_token |-> tok.access_token + 1,
                        refresh_token |-> "none"]

\* refresh_access_token succeeded: a new access token, same refresh token
Refreshed(tok) == [access_token |-> tok.access_token + 1,
                   refresh_token |-> tok.refresh_token]

\* an entry of the cache log: the operation, how it ended, whether it wrote
\* the store, and whether it came right after a get that wrote the store
CacheOp(o, h, w, f) == [op |-> o, how |-> h, wrote |-> w, follows_seed |-> f]
NoOp == CacheOp("none", "none", FALSE, FALSE)

\* ------------------------------------------------------------- outcomes
\* Kinds of values the three methods return, by message template
SuccessOutcomes == {"Added", "AlreadyPresent", "NotFound", "Removed", "Link"}
ErrorOutcomes == {"SpotifyError", "NotAuthenticated", "Error"}
Outcomes == SuccessOutcomes \cup ErrorOutcomes

\* the message returned from  except SpotifyException
SpotifyErrorOf(o) == IF o = "link" THEN "Error" ELSE "SpotifyError"

\* first statement of the try body
FirstStep(o) == CASE o = "add" -> "search" [] o = "remove" -> "ritems" [] OTHER -> "playlist"

\* ------------------------------------------------------ the guessing game
Names == 1..NNames
Tasks == {1, 2}                 \* /random invocations that may overlap
NoName == 0
NoGame == [target_name |-> NoName, options |-> EmptyBag, songs_display |-> <<>>]
IdleInv == [pc |-> "idle", users |-> {}, target |-> NoName, decoys |-> {},
            songs_display |-> <<>>, result |-> "none", navailable |-> 0,
            lookups |-> <<>>]
Guessers == {1, 2}              \* /guess invocations
IdleGuess == [pc |-> "idle", result |-> "none"]

NotFetched == [done |-> FALSE, users |-> <<>>]

\* module level, lines 434 and 512: nothing picked in this run, no round, no view
NoGameYet ==
  /\ sheet = {}
  /\ game_history = {}
  /\ active_game = NoGame
  /\ inv = [t \in Tasks |-> IdleInv]
  /\ guessing = [g \in Guessers |-> IdleGuess]
  /\ views = <<>>
  /\ chosen = <<>>
  /\ stores = <<>>
  /\ csv_rows = <<>>
  /\ game_data = NotFetched

Init ==
  /\ playlist \in UNION {[1..n -> Tracks] : n \in 0..MaxPlaylist}
  \* SpotifyClient.__init__ has called get_cached_token once: an empty store
  \* has taken the env var's token
  /\ \E rec \in {NoToken, [access_token |-> 0, refresh_token |-> "A"],
                  [access_token |-> 0, refresh_token |-> "none"]},
        env \in {NoToken, [access_token |-> 0, refresh_token |-> "B"]} :
       /\ env # NoToken => rec = NoToken
       /\ env_token = env
       /\ record = get_cached_token(rec, env).rec
  /\ pc = [t \in Threads |-> "idle"]
  /\ op = [t \in Threads |-> "none"]
  /\ attempts = [t \in Threads |-> 0]
  /\ song_query = [t \in Threads |-> <<>>]
  /\ artist_query = [t \in Threads |-> <<>>]
  /\ track = [t \in Threads |-> NoTrack]
  /\ all_items = [t \in Threads |-> <<>>]
  /\ rattempt = [t \in Threads |-> 0]
  /\ result = [t \in Threads |-> "none"]
  /\ fails = [t \in Threads |-> <<>>]
  /\ bodies = [t \in Threads |-> 0]
  /\ nrefresh = [t \in Threads |-> 0]
  /\ rlog = [t \in Threads |-> <<>>]
  /\ addCalls = [t \in Threads |-> 0]
  /\ wasPresent = [t \in Threads |-> FALSE]
  /\ exhausted = FALSE
  /\ invalidAtStart = [t \in Threads |-> FALSE]
  /\ twice = [n |-> 0, pl0 |-> <<>>, track |-> NoTrack, result |-> "none"]
  \* the store was reachable and the client was created
  /\ force_reset = FALSE
  /\ mongo = "up"
  /\ handler = "mongo"
  /\ spotify = "client"
  /\ cache_file = NoToken
  /\ got = NoToken
  /\ last = NoOp
  /\ NoGameYet

\* ------------------------------------------------- the retry loop's pieces
\* variants of the 401 test:  attempts == 1 ;  no test of attempts ;
\* no refresh once an earlier refresh ran out of attempts
Retry401_WrongAttempt(kind, a) == kind = "e401" /\ a = 1
Retry401_Unbounded(kind, a) == kind = "e401"
Retry401_Terminal(kind, a) == kind = "e401" /\ a = 0 /\ ~exhausted

\* line 289 / 356 / 384:  e.http_status == 401 and attempts == 0
Retry401(kind, a) == kind = "e401" /\ a = 0

\* variants of the connection test:  no test of attempts ;  no test of the text
RetryConn_Unbounded(kind, a) == kind = "reset"
RetryConn_Any(kind, a) == a = 0

\* line 301 / 368 / 395:  attempts == 0 and ("Connection aborted" in str(e) or ...)
RetryConn(kind, a) == a = 0 /\ kind = "reset"

\* return <outcome>
Return(t, trk, r) ==
  /\ pc' = [pc EXCEPT ![t] = "done"]
  /\ track' = [track EXCEPT ![t] = trk]
  /\ result' = [result EXCEPT ![t] = r]
  /\ UNCHANGED <<attempts, bodies, nrefresh, rattempt, rlog>>

\* return from the try body (no exception)
Ret(t, trk, r) == Return(t, trk, r) /\ UNCHANGED fails

\* next statement of the try body
Goto(t, p) ==
  /\ pc' = [pc EXCEPT ![t] = p]
  /\ UNCHANGED <<attempts, result, fails, bodies, nrefresh, rattempt, rlog>>

\* attempts += 1; continue  -- the while condition is evaluated again; leaving
\* the loop ends the method without a return statement (Python returns None)
Continue(t) ==
  /\ attempts' = [attempts EXCEPT ![t] = @ + 1]
  /\ track' = [track EXCEPT ![t] = NoTrack]
  /\ IF attempts[t] + 1 < MaxBodyAttempts
       THEN /\ pc' = [pc EXCEPT ![t] = FirstStep(op[t])]
            /\ bodies' = [bodies EXCEPT ![t] = @ + 1]
            /\ UNCHANGED result
       ELSE /\ pc' = [pc EXCEPT ![t] = "done"]
            /\ result' = [result EXCEPT ![t] = "None"]
            /\ UNCHANGED bodies

\* variant: EOFError falls into the except Exception clause and is retried
Raise_EofAsException(t, kind) ==
  /\ fails' = [fails EXCEPT ![t] = Append(@, kind)]
  /\ IF kind \in {"e401", "ehttp"}                     \* except SpotifyException
       THEN IF Retry401(kind, attempts[t])
              THEN /\ pc' = [pc EXCEPT ![t] = "refresh"]   \* self._refresh_token()
                   /\ track' = [track EXCEPT ![t] = NoTrack]
                   /\ nrefresh' = [nrefresh EXCEPT ![t] = @ + 1]
                   /\ rattempt' = [rattempt EXCEPT ![t] = 0]
                   /\ rlog' = [rlog EXCEPT ![t] = <<>>]
                   /\ UNCHANGED <<attempts, result, bodies>>
              ELSE Return(t, NoTrack, SpotifyErrorOf(op[t]))
     ELSE IF attempts[t] = 0 /\ kind \in {"reset", "eof"}
       THEN Continue(t) /\ UNCHANGED <<nrefresh, rattempt, rlog>>
       ELSE Return(t, NoTrack, "Error")

\* the except clauses of the three methods, for an exception of the given kind
Raise(t, kind) ==
  /\ fails' = [fails EXCEPT ![t] = Append(@, kind)]
  /\ IF kind \in {"e401", "ehttp"}                     \* except SpotifyException
       THEN IF Retry401(kind, attempts[t])
              THEN /\ pc' = [pc EXCEPT ![t] = "refresh"]   \* self._refresh_token()
                   /\ track' = [track EXCEPT ![t] = NoTrack]
                   /\ nrefresh' = [nrefresh EXCEPT ![t] = @ + 1]
                   /\ rattempt' = [rattempt EXCEPT ![t] = 0]
                   /\ rlog' = [rlog EXCEPT ![t] = <<>>]
                   /\ UNCHANGED <<attempts, result, bodies>>
              ELSE Return(t, NoTrack, SpotifyErrorOf(op[t]))
     ELSE IF kind = "eof"                              \* except EOFError
       THEN Return(t, NoTrack, "NotAuthenticated")
     ELSE IF RetryConn(kind, attempts[t])              \* except Exception
       THEN Continue(t) /\ UNCHANGED <<nrefresh, rattempt, rlog>>
       ELSE Return(t, NoTrack, "Error")

\* ------------------------------------------------------- _refresh_token
\* What one pass of the try block can raise
RefreshExceptions == {"get_raises", "oauth_error", "conn_error"}

\* line 238:  except Exception as e
RefreshCatches(e) == e \in RefreshExceptions

\* variant: sleeps after every failed attempt
ShouldSleep_Always(attempt) == attempt < max_retries

\* line 240:  if attempt < max_retries - 1: time.sleep(2)
ShouldSleep(attempt) == attempt < max_retries - 1

\* variant: the caller gives up when the refresh brought no new token
RefreshReturn_Checked(t, ev) ==
  /\ rlog' = [rlog EXCEPT ![t] = Append(@, ev)]
  /\ IF ev = "ok"
       THEN Continue(t)
       ELSE /\ pc' = [pc EXCEPT ![t] = "done"]
            /\ result' = [result EXCEPT ![t] = "NotAuthenticated"]
            /\ UNCHANGED <<attempts, bodies, track>>
  /\ UNCHANGED <<nrefresh, rattempt, fails>>

\* _refresh_token returns to the except clause that called it:
\* attempts += 1; continue
RefreshReturn(t, ev) ==
  /\ rlog' = [rlog EXCEPT ![t] = Append(@, ev)]
  /\ Continue(t)
  /\ UNCHANGED <<nrefresh, rattempt, fails>>

\* a pass of the loop ended in the except clause
RefreshFailed(t) ==
  LET log == IF ShouldSleep(rattempt[t])
               THEN rlog[t] \o <<"fail", "sleep">> ELSE Append(rlog[t], "fail")
  IN  IF rattempt[t] + 1 < max_retries
        THEN /\ rlog' = [rlog EXCEPT ![t] = log]
             /\ rattempt' = [rattempt EXCEPT ![t] = @ + 1]
             /\ UNCHANGED <<pc, attempts, track, result, fails, bodies, nrefresh, exhausted>>
        ELSE /\ rlog' = [rlog EXCEPT ![t] = log]
             /\ exhausted' = TRUE
             /\ Continue(t)
             /\ UNCHANGED <<nrefresh, rattempt, fails>>

\* an exception leaves _refresh_token and with it the calling method
RefreshEscapes(t) ==
  /\ pc' = [pc EXCEPT ![t] = "done"]
  /\ result' = [result EXCEPT ![t] = "Raised"]
  /\ UNCHANGED <<attempts, track, fails, bodies, nrefresh, rattempt, rlog, exhausted>>

\* One pass of  for attempt in range(max_retries)
RefreshAttempt(t) ==
  /\ pc[t] = "refresh"
  /\ UNCHANGED aux
  /\ \E o \in RefreshExceptions \cup {"ok"} :
       LET g == get_cached_token(record, env_token) IN
       IF o = "get_raises"
         THEN /\ record' = record
              /\ IF RefreshCatches(o) THEN RefreshFailed(t) ELSE RefreshEscapes(t)
       ELSE IF HasRefreshToken(g.tok)
         THEN IF o = "ok"
                THEN /\ g.tok.access_token < MaxAccess
                     /\ record' = save_token_to_cache(g.rec, Refreshed(g.tok))
                     /\ RefreshReturn(t, "ok")
                     /\ UNCHANGED exhausted
                ELSE /\ record' = g.rec
                     /\ IF RefreshCatches(o) THEN RefreshFailed(t) ELSE RefreshEscapes(t)
         ELSE /\ o = "ok"
              /\ record' = g.rec
              /\ RefreshReturn(t, "norefresh")
              /\ UNCHANGED exhausted
  /\ UNCHANGED <<playlist, env_token, op, song_query, artist_query, all_items,
                 addCalls, wasPresent, invalidAtStart>>

\* ------------------------------------------------------ calls into spotipy
\* What a call through self.sp can do with the cached token tok: without a
\* token spotipy asks for the redirect URL with input(), which raises EOFError
OutcomesFor(tok) == IF tok = NoToken THEN {"eof", "exc"} ELSE HttpOutcomes

\* every call through self.sp reads the cache first (and migrates the env var)
CanDo(out) == out \in OutcomesFor(get_cached_token(record, env_token).tok)
RecordAfter(out) == IF out = "exc" THEN record ELSE get_cached_token(record, env_token).rec

\* line 271-272: the URIs the duplicate check compares against
track_uris(pl) == Range(Page(pl, 0))

\* A command handler calls one of the three methods on an executor thread
StartCall(t) ==
  /\ pc[t] \in {"idle", "done"}
  /\ \A u \in Threads : u < t => pc[u] \notin {"idle", "done"}   \* first free worker
  /\ \E o \in {"add", "remove", "link"} :
       /\ op' = [op EXCEPT ![t] = o]
       /\ pc' = [pc EXCEPT ![t] = FirstStep(o)]
       /\ IF o = "remove"
            THEN \E sq \in SongQueries, aq \in ArtistQueries :
                   /\ song_query' = [song_query EXCEPT ![t] = sq]
                   /\ artist_query' = [artist_query EXCEPT ![t] = aq]
            ELSE /\ song_query' = [song_query EXCEPT ![t] = <<>>]
                 /\ artist_query' = [artist_query EXCEPT ![t] = <<>>]
  /\ attempts' = [attempts EXCEPT ![t] = 0]
  /\ track' = [track EXCEPT ![t] = NoTrack]
  /\ all_items' = [all_items EXCEPT ![t] = <<>>]
  /\ rattempt' = [rattempt EXCEPT ![t] = 0]
  /\ result' = [result EXCEPT ![t] = "none"]
  /\ fails' = [fails EXCEPT ![t] = <<>>]
  /\ bodies' = [bodies EXCEPT ![t] = 1]
  /\ nrefresh' = [nrefresh EXCEPT ![t] = 0]
  /\ rlog' = [rlog EXCEPT ![t] = <<>>]
  /\ addCalls' = [addCalls EXCEPT ![t] = 0]
  /\ wasPresent' = [wasPresent EXCEPT ![t] = FALSE]
  /\ invalidAtStart' = [invalidAtStart EXCEPT ![t] = exhausted]
  /\ UNCHANGED <<playlist, record, env_token, exhausted>>

\* variant: an empty result list is not noticed
NoResults_Never(r) == FALSE

\* line 260: not results['tracks']['items']
NoResults(r) == r = NoTrack

\* search_and_add_top_result, lines 258-267: self.sp.search
Search(t) ==
  /\ pc[t] = "search"
  /\ UNCHANGED aux
  /\ \E out \in HttpOutcomes :
       /\ CanDo(out)
       /\ record' = RecordAfter(out)
       /\ IF out = "ok"
            THEN \E r \in Tracks \cup {NoTrack} :
                   IF NoResults(r)
                     THEN Ret(t, NoTrack, "NotFound")
                     ELSE Goto(t, "items") /\ track' = [track EXCEPT ![t] = r]
            ELSE Raise(t, out)
  /\ UNCHANGED <<playlist, env_token, op, song_query, artist_query, all_items,
                 addCalls, wasPresent, exhausted, invalidAtStart>>

\* search_and_add_top_result, lines 269-276: playlist_items and the duplicate check
Items(t) ==
  /\ pc[t] = "items"
  /\ UNCHANGED aux
  /\ \E out \in HttpOutcomes :
       /\ CanDo(out)
       /\ record' = RecordAfter(out)
       /\ IF out = "ok"
            THEN IF track[t] \in track_uris(playlist)
                   THEN Ret(t, track[t], "AlreadyPresent") /\ UNCHANGED wasPresent
                   ELSE /\ Goto(t, "add") /\ UNCHANGED track
                        /\ wasPresent' = [wasPresent EXCEPT ![t] = track[t] \in Range(playlist)]
            ELSE Raise(t, out) /\ UNCHANGED wasPresent
  /\ UNCHANGED <<playlist, env_token, op, song_query, artist_query, all_items,
                 addCalls, exhausted, invalidAtStart>>

\* the playlist stops growing here.  A scenario that follows one caller
\* (twice.n > 0) has room for a second add on top of the longest initial
\* playlist.
PlaylistCap == IF twice.n = 0 THEN MaxPlaylist ELSE MaxPlaylist + 1

\* variant: check and add under one lock, the check is made again before adding
AddItems_Locked(t) ==
  /\ pc[t] = "add"
  /\ UNCHANGED aux
  /\ addCalls' = [addCalls EXCEPT ![t] = @ + 1]
  /\ wasPresent' = [wasPresent EXCEPT ![t] = FALSE]
  /\ \E out \in HttpOutcomes :
       /\ CanDo(out)
       /\ record' = RecordAfter(out)
       /\ IF out = "ok"
            THEN IF track[t] \in track_uris(playlist)
                   THEN Ret(t, track[t], "AlreadyPresent") /\ UNCHANGED playlist
                   ELSE /\ Len(playlist) < PlaylistCap
                        /\ playlist' = Append(playlist, track[t])
                        /\ Ret(t, track[t], "Added")
            ELSE /\ Raise(t, out)
                 /\ UNCHANGED playlist
  /\ UNCHANGED <<env_token, op, song_query, artist_query, all_items,
                 exhausted, invalidAtStart>>

\* search_and_add_top_result, lines 282-286: playlist_add_items.  A connection
\* reset can be raised after the server has appended the item.
AddItems(t) ==
  /\ pc[t] = "add"
  /\ UNCHANGED aux
  /\ addCalls' = [addCalls EXCEPT ![t] = @ + 1]
  /\ wasPresent' = [wasPresent EXCEPT ![t] = FALSE]
  /\ \E out \in HttpOutcomes :
       /\ CanDo(out)
       /\ record' = RecordAfter(out)
       /\ IF out = "ok"
            THEN /\ Len(playlist) < PlaylistCap
                 /\ playlist' = Append(playlist, track[t])
                 /\ Ret(t, track[t], "Added")
            ELSE /\ Raise(t, out)
                 /\ \/ UNCHANGED playlist
                    \/ /\ out = "reset"
                       /\ Len(playlist) < PlaylistCap
                       /\ playlist' = Append(playlist, track[t])
  /\ UNCHANGED <<env_token, op, song_query, artist_query, all_items,
                 exhausted, invalidAtStart>>

\* after the last page: lines 324-353
Scan(t, items) ==
  LET track_to_remove == FirstMatch(items, song_query[t], artist_query[t])
  IN  IF track_to_remove # NoTrack
        THEN Goto(t, "rremove") /\ track' = [track EXCEPT ![t] = track_to_remove]
        ELSE Ret(t, NoTrack, "NotFound")

\* remove_song, lines 317-319: the first page
RItems(t) ==
  /\ pc[t] = "ritems"
  /\ UNCHANGED aux
  /\ \E out \in HttpOutcomes :
       /\ CanDo(out)
       /\ record' = RecordAfter(out)
       /\ IF out = "ok"
            THEN IF HasNext(playlist, 0)
                   THEN /\ all_items' = [all_items EXCEPT ![t] = Page(playlist, 0)]
                        /\ Goto(t, "rnext") /\ UNCHANGED track
                   ELSE Scan(t, Page(playlist, 0)) /\ UNCHANGED all_items
            ELSE Raise(t, out) /\ UNCHANGED all_items
  /\ UNCHANGED <<playlist, env_token, op, song_query, artist_query,
                 addCalls, wasPresent, exhausted, invalidAtStart>>

\* remove_song, lines 320-322: while results['next']: self.sp.next(results)
RNext(t) ==
  /\ pc[t] = "rnext"
  /\ UNCHANGED aux
  /\ \E out \in HttpOutcomes :
       /\ CanDo(out)
       /\ record' = RecordAfter(out)
       /\ IF out = "ok"
            THEN LET offset == Len(all_items[t])
                     items == all_items[t] \o Page(playlist, offset)
                 IN  IF HasNext(playlist, offset)
                       THEN /\ all_items' = [all_items EXCEPT ![t] = items]
                            /\ Goto(t, "rnext") /\ UNCHANGED track
                       ELSE /\ all_items' = [all_items EXCEPT ![t] = <<>>]
                            /\ Scan(t, items)
            ELSE /\ Raise(t, out)                    \* the next try body starts with all_items = []
                 /\ all_items' = [all_items EXCEPT ![t] = <<>>]
  /\ UNCHANGED <<playlist, env_token, op, song_query, artist_query,
                 addCalls, wasPresent, exhausted, invalidAtStart>>

\* remove_song, lines 344-351: playlist_remove_all_occurrences_of_items
RRemove(t) ==
  /\ pc[t] = "rremove"
  /\ UNCHANGED aux
  /\ \E out \in HttpOutcomes :
       /\ CanDo(out)
       /\ record' = RecordAfter(out)
       /\ IF out = "ok"
            THEN /\ playlist' = RemoveAll(playlist, track[t])
                 /\ Ret(t, track[t], "Removed")
            ELSE /\ Raise(t, out)
                 /\ \/ UNCHANGED playlist
                    \/ /\ out = "reset"
                       /\ playlist' = RemoveAll(playlist, track[t])
  /\ UNCHANGED <<env_token, op, song_query, artist_query, all_items,
                 addCalls, wasPresent, exhausted, invalidAtStart>>

\* get_playlist_link, lines 381-382: self.sp.playlist
Playlist(t) ==
  /\ pc[t] = "playlist"
  /\ UNCHANGED aux
  /\ \E out \in HttpOutcomes :
       /\ CanDo(out)
       /\ record' = RecordAfter(out)
       /\ IF out = "ok" THEN Ret(t, NoTrack, "Link") ELSE Raise(t, out)
  /\ UNCHANGED <<playlist, env_token, op, song_query, artist_query, all_items,
                 addCalls, wasPresent, exhausted, invalidAtStart>>

\* the credential a new authorization yields
NewCredential == [access_token |-> 0, refresh_token |-> "A"]

\* The operator re-authorizes: a new credential is put into the store
Reauthorize ==
  /\ record # NewCredential
  /\ UNCHANGED aux
  /\ record' = NewCredential
  /\ exhausted' = FALSE
  /\ UNCHANGED <<playlist, env_token, pc, op, attempts, song_query, artist_query,
                 track, all_items, rattempt, result, fails, bodies, nrefresh, rlog,
                 addCalls, wasPresent, invalidAtStart>>

\* no command is running
Quiet == \A t \in Threads : pc[t] \in {"idle", "done"}

\* Commands arrive one at a time
Command(t) == Quiet /\ StartCall(t) /\ UNCHANGED aux

Next ==
  \/ \E t \in Threads : Command(t)
  \/ \E t \in Threads : Search(t)
  \/ \E t \in Threads : Items(t)
  \/ \E t \in Threads : AddItems(t)
  \/ \E t \in Threads : RItems(t)
  \/ \E t \in Threads : RNext(t)
  \/ \E t \in Threads : RRemove(t)
  \/ \E t \in Threads : Playlist(t)
  \/ \E t \in Threads : RefreshAttempt(t)
  \/ Reauthorize

Spec == Init /\ [][Next]_vars

TypeOK ==
  /\ playlist \in UNION {[1..n -> Tracks] : n \in 0..MaxPlaylist}
  /\ record \in Tokens \cup {NoToken}
  /\ \A t \in Threads :
       /\ pc[t] \in {"idle", "search", "items", "add", "ritems", "rnext", "rremove",
                     "playlist", "refresh", "done"}
       /\ attempts[t] \in 0..MaxBodyAttempts
       /\ rattempt[t] \in 0..(max_retries - 1)

\* =================================================================== claims
Done(t) == pc[t] = "done"
LastFail(t) == fails[t][Len(fails[t])]

\* C1: a call whose first attempt fails with HTTP 401 and whose retry succeeds
\* returns the success result, and _refresh_token ran exactly once in the call.
RetryAfter401Succeeds ==
  \A t \in Threads :
    (Done(t) /\ fails[t] = <<"e401">>) =>
      (result[t] \in SuccessOutcomes /\ nrefresh[t] = 1 /\ bodies[t] = 2)

RetryAfter401SucceedsSeen ==
  \E t \in Threads :
    /\ Done(t) /\ op[t] = "add" /\ fails[t] = <<"e401">>
    /\ result[t] = "Added" /\ nrefresh[t] = 1

\* C2 as stated: a call that fails with HTTP 401 on the first attempt and on
\* the retry returns the not-authenticated outcome, after exactly one refresh.
Second401IsAuthenticationRequired ==
  \A t \in Threads :
    (Done(t) /\ fails[t] = <<"e401", "e401">>) =>
      (result[t] = "NotAuthenticated" /\ nrefresh[t] = 1)

\* C2 amended: a call that fails with HTTP 401 on the first attempt and on the
\* retry returns the same error outcome the method returns for any other
\* SpotifyException, after exactly one refresh and two attempts.
Second401IsSpotifyError ==
  \A t \in Threads :
    (Done(t) /\ fails[t] = <<"e401", "e401">>) =>
      (result[t] = SpotifyErrorOf(op[t]) /\ nrefresh[t] = 1 /\ bodies[t] = 2)

Second401Seen ==
  \E t \in Threads :
    /\ Done(t) /\ op[t] = "remove" /\ fails[t] = <<"e401", "e401">>
    /\ result[t] = "SpotifyError" /\ nrefresh[t] = 1

\* C3: a connection reset is retried once, at once (no refresh, no pause); a
\* second connection reset ends the call with the error outcome; the try body
\* is entered twice and never a third time.
ConnectionResetRetriedOnce ==
  \A t \in Threads :
    /\ bodies[t] <= 2
    /\ (fails[t] # <<>> /\ fails[t][1] = "reset") =>
         (bodies[t] = 2 /\ nrefresh[t] = 0 /\ rlog[t] = <<>>)
    /\ (Len(fails[t]) >= 2 /\ fails[t][1] = "reset" /\ fails[t][2] = "reset") =>
         (Done(t) /\ result[t] = "Error" /\ Len(fails[t]) = 2)

ConnectionResetTwiceSeen ==
  \E t \in Threads :
    Done(t) /\ fails[t] = <<"reset", "reset">> /\ result[t] = "Error" /\ bodies[t] = 2

\* C4 as stated: the retry rules count per failure kind: a 401 that follows a
\* connection reset still forces a refresh, and a connection reset that follows
\* a 401 is still retried.
RetryRulesPerKind ==
  \A t \in Threads :
    /\ (Len(fails[t]) >= 2 /\ fails[t][1] = "reset" /\ fails[t][2] = "e401") =>
         nrefresh[t] = 1
    /\ (Len(fails[t]) >= 2 /\ fails[t][1] = "e401" /\ fails[t][2] = "reset") =>
         bodies[t] = 3

\* C4 amended: the two retry rules share one retry per call: the second failure
\* of a call ends it whatever its kind; a 401 after a connection reset returns
\* the Spotify error without a refresh, a connection reset after a 401 returns
\* the error outcome without a further attempt.
RetryRulesShareOneRetry ==
  \A t \in Threads :
    /\ Len(fails[t]) >= 2 => (Done(t) /\ Len(fails[t]) = 2 /\ bodies[t] = 2)
    /\ fails[t] = <<"reset", "e401">> =>
         (nrefresh[t] = 0 /\ result[t] = SpotifyErrorOf(op[t]))
    /\ fails[t] = <<"e401", "reset">> =>
         (nrefresh[t] = 1 /\ result[t] = "Error")

ResetThen401Seen ==
  \E t \in Threads :
    Done(t) /\ fails[t] = <<"reset", "e401">> /\ nrefresh[t] = 0 /\ bodies[t] = 2

\* C5: an error that is neither HTTP 401 nor a connection reset ends the call
\* at once with an error outcome: one attempt, no refresh.
OtherErrorNotRetried ==
  \A t \in Threads :
    (fails[t] # <<>> /\ fails[t][1] \in {"ehttp", "exc"}) =>
      /\ Done(t) /\ Len(fails[t]) = 1 /\ bodies[t] = 1 /\ nrefresh[t] = 0
      /\ result[t] = IF fails[t][1] = "ehttp" THEN SpotifyErrorOf(op[t]) ELSE "Error"

OtherErrorSeen ==
  \E t \in Threads :
    Done(t) /\ op[t] = "add" /\ fails[t] = <<"ehttp">> /\ result[t] = "SpotifyError"

\* the forced refresh of the running call has returned without a new token
RefreshBroughtNothing(t) ==
  /\ pc[t] # "refresh" /\ nrefresh[t] = 1 /\ rlog[t] # <<>>
  /\ rlog[t][Len(rlog[t])] \in {"fail", "norefresh"}

\* C6 as stated: when the forced refresh brings no fresh credential the call
\* fails as not authenticated and the underlying operation is not invoked again.
FailedRefreshStopsCall ==
  \A t \in Threads :
    RefreshBroughtNothing(t) =>
      (Done(t) /\ result[t] = "NotAuthenticated" /\ bodies[t] = 1)

\* C6 amended: when the forced refresh brings no fresh credential the
\* underlying operation is still invoked exactly once more, and the call
\* returns the not-authenticated outcome only if that retry raises EOFError.
FailedRefreshStillRetries ==
  \A t \in Threads :
    RefreshBroughtNothing(t) =>
      /\ bodies[t] = 2 /\ attempts[t] = 1
      /\ Done(t) =>
           (result[t] = "NotAuthenticated" <=>
              (Len(fails[t]) = 2 /\ fails[t][2] = "eof"))

FailedRefreshThenRetrySeen ==
  \E t \in Threads :
    /\ Done(t) /\ RefreshBroughtNothing(t) /\ bodies[t] = 2
    /\ rlog[t] = <<"norefresh">> /\ result[t] \in SuccessOutcomes

\* C7: whatever fails, a finished call has returned one of the outcome values:
\* no exception left the method and the method did not run off the end of
\* the retry loop.
EveryCallReturnsAnOutcome ==
  \A t \in Threads :
    /\ Done(t) => result[t] \in Outcomes
    /\ attempts[t] < MaxBodyAttempts

CallReturnsAfterTwoFailuresSeen ==
  \E t \in Threads :
    Done(t) /\ fails[t] = <<"e401", "exc">> /\ result[t] = "Error"

RECURSIVE FailSleep(_)
FailSleep(k) == IF k = 0 THEN <<>> ELSE <<"fail", "sleep">> \o FailSleep(k - 1)
\* the event logs of a _refresh_token invocation that is still running
RunningRefreshLogs == {FailSleep(k) : k \in 0..(max_retries - 1)}
\* ... and of one that has returned
ReturnedRefreshLogs ==
  {FailSleep(k) \o <<e>> : k \in 0..(max_retries - 1), e \in {"ok", "norefresh"}}
    \cup {FailSleep(max_retries - 1) \o <<"fail">>}

\* C8: one _refresh_token invocation makes at most 3 attempts, stops at the
\* first that succeeds, sleeps after a failed attempt except the last, and
\* returns to its caller without raising.
RefreshTokenBounded ==
  \A t \in Threads :
    /\ pc[t] = "refresh" => rlog[t] \in RunningRefreshLogs
    /\ (pc[t] # "refresh" /\ nrefresh[t] > 0) => rlog[t] \in ReturnedRefreshLogs
    /\ result[t] # "Raised"

RefreshExhaustedSeen ==
  \E t \in Threads :
    /\ pc[t] # "refresh" /\ nrefresh[t] = 1
    /\ rlog[t] = <<"fail", "sleep", "fail", "sleep", "fail">>

\* C9 as stated: after a refresh has run out of attempts, and until the
\* operator re-authorizes, a later call fails as not authenticated without
\* another HTTP call and without another refresh.
InvalidIsTerminal ==
  \A t \in Threads :
    (invalidAtStart[t] /\ exhausted) =>
      /\ pc[t] \in {FirstStep(op[t]), "done"}
      /\ nrefresh[t] = 0
      /\ Done(t) => (result[t] = "NotAuthenticated" /\ fails[t] = <<>>)

\* C9 amended: a refresh that ran out of attempts is not remembered: a later
\* call invokes the underlying operation again, forces a refresh again on a
\* first 401, and returns the not-authenticated outcome only when an attempt
\* raises EOFError.
ExhaustionIsNotRemembered ==
  \A t \in Threads :
    invalidAtStart[t] =>
      /\ bodies[t] >= 1
      /\ (fails[t] # <<>> /\ fails[t][1] = "e401") => nrefresh[t] = 1
      /\ Done(t) =>
           (result[t] = "NotAuthenticated" <=>
              (fails[t] # <<>> /\ LastFail(t) = "eof"))

RefreshAfterExhaustionSeen ==
  \E t \in Threads :
    /\ invalidAtStart[t] /\ exhausted /\ Done(t)
    /\ fails[t] = <<"e401">> /\ rlog[t] = <<"ok">> /\ result[t] = "Added"

\* C10: playlist_add_items is only invoked for a track that was nowhere in
\* the playlist when the duplicate check ran.
DuplicateCheckCoversWholePlaylist ==
  \A t \in Threads : pc[t] = "add" => ~wasPresent[t]

\* ------------------------------------------- two calls, one after the other
\* /addsong issued twice: the second call starts when the first has returned
\* Added, its search has the same top result, no call through self.sp raises
\* and nothing else writes the playlist.
Caller == 1

InitTwice == Init /\ record # NoToken

\* the first search_and_add_top_result
TwiceFirst ==
  /\ twice.n = 0
  /\ StartCall(Caller)
  /\ op'[Caller] = "add"
  /\ twice' = [n |-> 1, pl0 |-> playlist, track |-> NoTrack, result |-> "none"]
  /\ UNCHANGED <<cacheVars, gameVars>>

\* the second one, after the first returned Added
TwiceSecond ==
  /\ twice.n = 1
  /\ Done(Caller) /\ result[Caller] = "Added"
  /\ StartCall(Caller)
  /\ op'[Caller] = "add"
  /\ twice' = [twice EXCEPT !.n = 2, !.track = track[Caller], !.result = result[Caller]]
  /\ UNCHANGED <<cacheVars, gameVars>>

\* lines 258-267 without an exception; the second search has the same top result
TwiceSearch ==
  /\ Search(Caller)
  /\ UNCHANGED fails
  /\ twice.n = 2 => track'[Caller] = twice.track

\* lines 269-276 without an exception
TwiceItems == Items(Caller) /\ UNCHANGED fails

\* lines 282-286 without an exception
TwiceAddItems == AddItems(Caller) /\ UNCHANGED fails

NextTwice ==
  \/ TwiceFirst
  \/ TwiceSecond
  \/ TwiceSearch
  \/ TwiceItems
  \/ TwiceAddItems

SpecTwice == InitTwice /\ [][NextTwice]_vars

\* C11: a track that is not in the playlist is added by the first call and
\* found by the second: the second call never gets to playlist_add_items, it
\* returns AlreadyPresent, and over the two calls the playlist has grown by
\* exactly that one entry.
AddTwiceAddsOnce ==
  (twice.n = 2 /\ twice.track \notin Range(twice.pl0)) =>
     /\ twice.result = "Added"
     /\ pc[Caller] # "add"
     /\ Done(Caller) =>
          /\ result[Caller] = "AlreadyPresent"
          /\ playlist = Append(twice.pl0, twice.track)

\* ------------------------------------------------ calls on several threads
\* Each /addsong runs search_and_add_top_result on a thread of the default
\* executor (run_in_executor), so calls overlap; no call through self.sp raises.
InitConc == Init /\ record # NoToken

ConcStart(t) ==
  /\ pc[t] = "idle"
  /\ StartCall(t)
  /\ op'[t] = "add"
  /\ UNCHANGED aux

ConcSearch(t) == Search(t) /\ UNCHANGED fails

ConcItems(t) == Items(t) /\ UNCHANGED fails

ConcAddItems(t) == AddItems(t) /\ UNCHANGED fails

NextConc ==
  \/ \E t \in Threads : ConcStart(t)
  \/ \E t \in Threads : ConcSearch(t)
  \/ \E t \in Threads : ConcItems(t)
  \/ \E t \in Threads : ConcAddItems(t)

SpecConc == InitConc /\ [][NextConc]_vars

\* C12: nothing orders one call's duplicate check and add against another
\* call's: a call that has passed the check appends its track and returns
\* Added whatever the other calls have appended in between.
CheckAndAddAreNotAtomic ==
  [][\A t \in Threads :
       (pc[t] = "add" /\ pc'[t] = "done") =>
          /\ playlist' = Append(playlist, track[t])
          /\ result'[t] = "Added"]_vars

\* two overlapping calls for one track both passed the check on a playlist
\* that did not hold it, and both added it
SameTrackAddedTwiceSeen ==
  \E t, u \in Threads :
    /\ t # u /\ Done(t) /\ Done(u)
    /\ track[t] = track[u]
    /\ result[t] = "Added" /\ result[u] = "Added"
    /\ playlist = <<track[t], track[t]>>

\* ------------------------------------------------ claims about one call
\* C13: a search with no results ends the call in that step: the outcome is
\* NotFound with no track, the playlist items are not fetched, add-items is
\* not invoked and the playlist is left as it was; only a search that found
\* a track goes on to the duplicate check and the add.
EmptySearchIsNotFound ==
  [][\A t \in Threads :
          /\ pc'[t] \in {"items", "add"} => track'[t] # NoTrack
          /\ (pc[t] = "search" /\ pc'[t] = "done" /\ fails'[t] = fails[t]) =>
                /\ result'[t] = "NotFound" /\ track'[t] = NoTrack
                /\ playlist' = playlist
                /\ addCalls'[t] = addCalls[t]
          /\ (op[t] = "add" /\ pc[t] # "done" /\ pc'[t] = "done"
                 /\ result'[t] = "NotFound") =>
                pc[t] = "search"]_vars

EmptySearchSeen ==
  \E t \in Threads :
    /\ Done(t) /\ op[t] = "add" /\ result[t] = "NotFound" /\ track[t] = NoTrack
    /\ fails[t] = <<>> /\ addCalls[t] = 0 /\ playlist # <<>>

\* no entry of the playlist matches the query of t's remove_song
NoEntryMatches(t) ==
  \A i \in 1..Len(playlist) : ~Matches(song_query[t], artist_query[t], playlist[i])

Running(t) == pc[t] \notin {"idle", "done"}

\* the step changes the playlist, or returns, without an exception in that
\* step, something other than NotFound with no track
ChangesOrFinds(t) ==
  \/ playlist' # playlist
  \/ /\ pc'[t] = "done" /\ fails'[t] = fails[t]
     /\ ~(result'[t] = "NotFound" /\ track'[t] = NoTrack)

\* C14: while no playlist entry matches its query, remove_song is never at
\* remove-items, none of its steps changes the playlist, and when it returns
\* without an exception in that step the outcome is NotFound with no track
\* (stated the other way round: a remove_song that is at remove-items, or
\* takes a step that changes the playlist or returns another outcome, has a
\* matching entry).
RemoveWithoutMatchIsNotFound ==
  [][\A t \in Threads :
          /\ (op'[t] = "remove" /\ pc'[t] = "rremove") => ~NoEntryMatches(t)'
          /\ (op[t] = "remove" /\ Running(t) /\ ChangesOrFinds(t)) =>
                ~NoEntryMatches(t)]_vars

\* a remove_song that read two pages, none of whose entries matched
RemoveWithoutMatchSeen ==
  \E t \in Threads :
    /\ Done(t) /\ op[t] = "remove" /\ NoEntryMatches(t)
    /\ result[t] = "NotFound" /\ track[t] = NoTrack
    /\ fails[t] = <<>> /\ Len(playlist) > PageSize

\* the lowercased name of u contains the lowercased song query and, with an
\* artist query, one of its lowercased artist names contains that lowercased
EntryMatches(sq, aq, u) ==
  /\ Contains(LowerStr(sq), LowerStr(TrackName(u)))
  /\ aq # <<>> =>
        \E i \in 1..Len(TrackArtists(u)) :
          Contains(LowerStr(aq), LowerStr(TrackArtists(u)[i]))

\* the positions, over all pages, of the entries that match the query of t
MatchingEntries(t) ==
  {i \in 1..Len(playlist) : EntryMatches(song_query[t], artist_query[t], playlist[i])}

\* the track t is about to remove is the first matching entry of the playlist
FirstMatchSelected(t) ==
  /\ MatchingEntries(t) # {}
  /\ \E i \in MatchingEntries(t) :
       /\ \A j \in MatchingEntries(t) : i <= j
       /\ track[t] = playlist[i]

\* C15: remove_song selects the first matching entry of the whole playlist
\* (all pages, list order), does not return NotFound while some entry
\* matches, and its remove-items takes out every occurrence of the selected
\* URI and nothing else, also when later entries with another URI match.
RemoveTakesFirstMatch ==
  [][\A t \in Threads :
          /\ pc'[t] = "rremove" => FirstMatchSelected(t)'
          /\ (op[t] = "remove" /\ Running(t) /\ pc'[t] = "done"
                /\ fails'[t] = fails[t] /\ MatchingEntries(t) # {}) =>
               (pc[t] = "rremove" /\ result'[t] = "Removed")
          /\ (pc[t] = "rremove" /\ pc'[t] = "done" /\ result'[t] = "Removed") =>
               /\ track'[t] = track[t]
               /\ playlist' = SelectSeq(playlist, LAMBDA u : u # track[t])]_vars

\* track 1 was removed from <<1, 2, 2>> on the query "A": the entries left
\* match the query as well
RemoveTakesFirstMatchSeen ==
  \E t \in Threads :
    /\ Done(t) /\ op[t] = "remove" /\ result[t] = "Removed" /\ track[t] = 1
    /\ song_query[t] = <<"A">> /\ artist_query[t] = <<>>
    /\ playlist = <<2, 2>>
    /\ MatchingEntries(t) = {1, 2}

\* ------------------------------------------------ start-up and the cache
\* The module creates the client once; afterwards the auth manager asks its
\* cache handler for the token before every request, while the store comes
\* and goes.
InitCache ==
  /\ playlist = <<>>
  /\ pc = [t \in Threads |-> "idle"]
  /\ op = [t \in Threads |-> "none"]
  /\ attempts = [t \in Threads |-> 0]
  /\ song_query = [t \in Threads |-> <<>>]
  /\ artist_query = [t \in Threads |-> <<>>]
  /\ track = [t \in Threads |-> NoTrack]
  /\ all_items = [t \in Threads |-> <<>>]
  /\ rattempt = [t \in Threads |-> 0]
  /\ result = [t \in Threads |-> "none"]
  /\ fails = [t \in Threads |-> <<>>]
  /\ bodies = [t \in Threads |-> 0]
  /\ nrefresh = [t \in Threads |-> 0]
  /\ rlog = [t \in Threads |-> <<>>]
  /\ addCalls = [t \in Threads |-> 0]
  /\ wasPresent = [t \in Threads |-> FALSE]
  /\ exhausted = FALSE
  /\ invalidAtStart = [t \in Threads |-> FALSE]
  /\ twice = [n |-> 0, pl0 |-> <<>>, track |-> NoTrack, result |-> "none"]
  /\ record \in Tokens \cup {NoToken}
  /\ env_token \in Tokens \cup {NoToken, Malformed}
  /\ force_reset \in BOOLEAN
  /\ mongo \in {"up", "down", "baduri", "nouri"}
  /\ cache_file \in {NoToken, NewCredential}
  /\ handler = "unset"
  /\ spotify = "unset"
  /\ got = NoToken
  /\ last = NoOp
  /\ NoGameYet

\* variant: the parsed token is returned although it could not be saved
MigrationFailed_ReturnsToken(token_info) == token_info

\* lines 93-95: except Exception: print("Migration failed"); return None
MigrationFailed(token_info) == NoToken

\* lines 177-190: the handler __init__ ends up with.  MongoClient(...) does not
\* wait for the server, it raises only for a connection string it rejects;
\* SpotifyOAuth(cache_handler=None) uses spotipy's cache file.
cache_handler(m) == IF m \in {"up", "down"} THEN "mongo" ELSE "file"

\* lines 426-431: what the global spotify is after the try statement
InitOutcome(raised) == IF raised THEN "none" ELSE "client"

\* MongoDBCacheHandler.get_cached_token (78-95) called as operation o
MongoGet(o) ==
  \/ /\ mongo = "down"                          \* find_one raises
     /\ got' = NoToken
     /\ UNCHANGED record
     /\ last' = CacheOp(o, "raised", FALSE, FALSE)
  \/ /\ mongo = "up"
     /\ LET g == get_cached_token(record, env_token)
        IN  \/ /\ got' = g.tok
               /\ record' = g.rec
               /\ last' = CacheOp(o, "returned", g.rec # record,
                                  last.how = "returned" /\ last.wrote)
            \/ /\ record = NoToken /\ WellFormed(env_token)   \* update_one raises
               /\ got' = MigrationFailed(env_token)
               /\ UNCHANGED record
               /\ last' = CacheOp(o, "migration_failed", FALSE, FALSE)

\* spotipy's CacheFileHandler.get_cached_token
FileGet(o) ==
  /\ got' = cache_file
  /\ UNCHANGED record
  /\ last' = CacheOp(o, "returned", FALSE, FALSE)

\* spotify = SpotifyClient() at module level: __init__ lines 173-221 inside
\* the try of lines 426-431
ModuleInit ==
  /\ spotify = "unset"
  /\ handler' = cache_handler(mongo)
  /\ IF handler' = "mongo" THEN MongoGet("init") ELSE FileGet("init")
  /\ spotify' = InitOutcome(last'.how = "raised")
  /\ UNCHANGED <<env_token, force_reset, mongo, cache_file, gateway, gameVars>>

\* self.auth_manager.get_cached_token(), as every request through self.sp
\* and _refresh_token make it
CachedToken ==
  /\ spotify = "client"
  /\ IF handler = "mongo" THEN MongoGet("get") ELSE FileGet("get")
  /\ UNCHANGED <<env_token, force_reset, mongo, handler, spotify, cache_file, gateway,
                 gameVars>>

\* the MongoDB server becomes unreachable, or reachable again
MongoFlip ==
  /\ mongo \in {"up", "down"}
  /\ mongo' = IF mongo = "up" THEN "down" ELSE "up"
  /\ last' = CacheOp("flip", "none", FALSE, FALSE)
  /\ UNCHANGED <<record, env_token, force_reset, handler, spotify, cache_file, got,
                 gateway, gameVars>>

NextCache ==
  \/ ModuleInit
  \/ CachedToken
  \/ MongoFlip

SpecCache == InitCache /\ [][NextCache]_vars

\* the step is a get_cached_token of the Mongo handler that returned
MongoGetReturns ==
  /\ last'.op \in {"init", "get"}
  /\ last'.how = "returned"
  /\ handler' = "mongo"

\* C16: with an empty store and a well-formed SPOTIFY_TOKEN_CACHE,
\* get_cached_token puts the env var's token into the store and returns it,
\* and the get_cached_token that follows returns that token from the store.
EmptyStoreIsSeeded ==
  [][/\ (MongoGetReturns /\ record = NoToken /\ WellFormed(env_token)) =>
          (record' = env_token /\ got' = env_token)
     /\ (MongoGetReturns /\ last'.op = "get"
          /\ last.op \in {"init", "get"} /\ last.how = "returned" /\ last.wrote) =>
          (got' = got /\ got' = record /\ record' = record)]_vars

EmptyStoreIsSeededSeen ==
  /\ last = CacheOp("get", "returned", FALSE, TRUE)
  /\ WellFormed(env_token)
  /\ got = env_token /\ record = env_token

\* C17: a store credential and an env var credential with different
\* refresh_tokens, no force-reset flag: get_cached_token returns the env
\* var's credential and overwrites the store with it.
EnvBlobWinsWhenDifferent ==
  [][(/\ MongoGetReturns /\ ~force_reset
      /\ record # NoToken /\ WellFormed(env_token)
      /\ record.refresh_token # env_token.refresh_token) =>
        (got' = env_token /\ record' = env_token)]_vars

\* C17 amended: in that case get_cached_token returns the store's credential
\* and leaves the store as it is; the env var is not looked at.
StoreWinsWhenDifferent ==
  [][(/\ MongoGetReturns /\ ~force_reset
      /\ record # NoToken /\ WellFormed(env_token)
      /\ record.refresh_token # env_token.refresh_token) =>
        (got' = record /\ record' = record /\ ~last'.wrote)]_vars

StoreWinsWhenDifferentSeen ==
  /\ last = CacheOp("get", "returned", FALSE, FALSE)
  /\ ~force_reset /\ handler = "mongo"
  /\ record # NoToken /\ WellFormed(env_token)
  /\ record.refresh_token = "A" /\ env_token.refresh_token = "B"
  /\ got = record

\* C18: with the force-reset flag set and a well-formed env var,
\* get_cached_token overwrites the store with the env var's credential and
\* returns it, also when both hold the same refresh_token.
ForceResetOverwrites ==
  [][(MongoGetReturns /\ force_reset /\ WellFormed(env_token)) =>
        (got' = env_token /\ record' = env_token)]_vars

\* C18 amended: no flag is read: with the flag set, a store that holds a
\* credential is returned and left as it is, whatever the env var holds
\* (also a credential with the same refresh_token); only an empty store
\* takes the env var's credential.
ForceResetIsNotRead ==
  [][(MongoGetReturns /\ force_reset) =>
        /\ record # NoToken => (got' = record /\ record' = record /\ ~last'.wrote)
        /\ last'.wrote => (record = NoToken /\ record' = env_token)]_vars

\* the flag is set, both hold refresh_token "A" with different access tokens,
\* and the store's credential was returned
ForceResetIsNotReadSeen ==
  /\ last = CacheOp("get", "returned", FALSE, FALSE)
  /\ force_reset /\ handler = "mongo"
  /\ record # NoToken /\ WellFormed(env_token)
  /\ record.refresh_token = "A" /\ env_token.refresh_token = "A"
  /\ record # env_token
  /\ got = record

\* the step is a start-up or a get_cached_token in which the store failed:
\* MongoClient rejected the connection string, find_one raised, or the
\* update_one of the migration raised
StoreFailed ==
  /\ last'.op \in {"init", "get"}
  /\ \/ last'.how \in {"raised", "migration_failed"}
     \/ last'.op = "init" /\ mongo = "baduri"

\* C19: when the store fails and SPOTIFY_TOKEN_CACHE holds a credential,
\* the process goes on and the credential the caller gets is the env var's.
StoreFailureFallsBackToEnv ==
  [][(StoreFailed /\ WellFormed(env_token)) =>
        (spotify' \in {"client", "none"} /\ got' = env_token)]_vars

\* C19 amended: a store failure does not end the process, and nothing is
\* taken from the env var: the store is left as it is; a connection string
\* that is rejected at start-up leaves the client on spotipy's cache file; a
\* read that fails at start-up leaves the process without a client; a read
\* that fails later, or a migration whose write fails, gives the caller no
\* credential.
StoreFailureHasNoFallback ==
  [][StoreFailed =>
        /\ spotify' \in {"client", "none"}
        /\ record' = record
        /\ got' = (IF handler' = "file" THEN cache_file ELSE NoToken)
        /\ (last'.op = "init" /\ last'.how = "raised") <=> spotify' = "none"]_vars

\* the env var holds a credential, the migration's write failed, and the
\* caller was given none
StoreFailureHasNoFallbackSeen ==
  /\ last = CacheOp("get", "migration_failed", FALSE, FALSE)
  /\ spotify = "client" /\ handler = "mongo"
  /\ WellFormed(env_token) /\ record = NoToken
  /\ got = NoToken

\* C20: a step never takes a store that holds a credential with a
\* refresh_token to one that is empty or whose credential has none.
RefreshTokenIsKept ==
  [][HasRefreshToken(record) => HasRefreshToken(record')]_vars

\* a forced refresh has replaced the stored credential and its refresh_token
\* is still there
RefreshTokenIsKeptSeen ==
  \E t \in Threads :
    /\ rlog[t] = <<"ok">>
    /\ record.access_token > 0
    /\ HasRefreshToken(record)

\* ======================================================================
\* The guessing game: /random picks a target and stores a round
\* (random_songs), /resetgame clears the history.  Two /random invocations
\* run on one event loop: each runs uninterrupted between two awaits.
\* ======================================================================
MinUsers == 4                   \* line 935: len(users) < 4
NDecoys == 3                    \* line 955: random.sample(others, 3)

\* fetch_game_data: one record per name (a later row replaces an earlier one
\* of the same name), the songs of the name; [] when anything went wrong
Songs(n) == [k \in 1..NSongs |-> <<n, k>>]
Fetched == {sheet, {}}

\* GameHistoryManager.get_used_users
get_used_users == game_history

\* line 941
Available(users) == {u \in users : u \notin get_used_users}

\* variant: the target stays among the records the decoys are drawn from
Others_WithTarget(users, target) == users

\* line 950
Others(users, target) == {u \in users : u # target}

\* random.sample(others, 3): any 3 distinct records
Sample(others) == {d \in SUBSET others : Cardinality(d) = NDecoys}

\* lines 956-957: the list [target] + decoys, shuffled.  random.shuffle can
\* leave the entries in any order, so the list is kept as the bag of its
\* entries: which names, and how many times each.
Options(target, decoys) == SetToBag({target}) (+) SetToBag(decoys)

\* variant: a round that is already there keeps its candidate names
StoreRound_KeepsOptions(t, target, decoys, songs_display) ==
  /\ active_game' = [target_name |-> target,
                     options |-> IF active_game = NoGame THEN Options(target, decoys)
                                 ELSE active_game.options,
                     songs_display |-> songs_display]
  /\ stores' = Append(stores, t)

\* lines 971-975, the one assignment to the global
StoreRound(t, target, decoys, songs_display) ==
  /\ active_game' = [target_name |-> target, options |-> Options(target, decoys),
                     songs_display |-> songs_display]
  /\ stores' = Append(stores, t)

\* lines 966-969: the link when the lookup found the track, the text otherwise
Display(song, info) == [song |-> song, linked |-> info]

\* the command arrives; line 932 and fetch_game_data suspend it
RandomStart(t) ==
  /\ inv[t].pc = "idle"
  /\ inv' = [inv EXCEPT ![t].pc = "fetch"]
  /\ UNCHANGED <<sheet, game_history, active_game, guessing, views, chosen, stores>>

\* variant: fewer than 4 unused names count as too few
TooFew_OrFewUnused(users) ==
  Cardinality(users) < MinUsers \/ Cardinality(Available(users)) < MinUsers

\* lines 934-937
TooFew(users) == Cardinality(users) < MinUsers

\* lines 943-945
AllPicked(users) == Available(users) = {}

\* variant: the name is not recorded
mark_user_Never(name) == game_history' = game_history

\* GameHistoryManager.mark_user
mark_user(name) == game_history' = game_history \cup {name}

\* lines 934-957 and, when no lookup suspends the command, up to 975: from
\* the return of fetch_game_data to the next await nothing else runs
RandomPick(t) ==
  /\ inv[t].pc = "fetch"
  /\ \E users \in Fetched :
       \/ /\ TooFew(users)
          /\ inv' = [inv EXCEPT ![t].pc = "done", ![t].users = users,
                                 ![t].navailable = Cardinality(Available(users)),
                                 ![t].result = "too_few"]
          /\ UNCHANGED <<game_history, active_game, chosen, stores>>
       \/ /\ ~TooFew(users)
          /\ AllPicked(users)
          /\ inv' = [inv EXCEPT ![t].pc = "done", ![t].users = users,
                                 ![t].navailable = Cardinality(Available(users)),
                                 ![t].result = "all_picked"]
          /\ UNCHANGED <<game_history, active_game, chosen, stores>>
       \/ /\ ~TooFew(users)
          /\ ~AllPicked(users)
          /\ \E target \in Available(users) :
               /\ mark_user(target)
               /\ chosen' = Append(chosen, target)
               /\ \/ /\ Cardinality(Others(users, target)) < NDecoys
                     /\ inv' = [inv EXCEPT ![t].pc = "done", ![t].users = users,
                                            ![t].target = target,
                                            ![t].navailable = Cardinality(Available(users)),
                                            ![t].result = "no_decoys"]
                     /\ UNCHANGED <<active_game, stores>>
                  \/ /\ Cardinality(Others(users, target)) >= NDecoys
                     /\ \E decoys \in Sample(Others(users, target)) :
                          IF spotify = "none" \/ Len(Songs(target)) = 0
                          THEN LET shown == [k \in 1..Len(Songs(target)) |->
                                              Display(Songs(target)[k], FALSE)]
                               IN /\ inv' = [inv EXCEPT ![t].pc = "done", ![t].users = users,
                                                ![t].target = target, ![t].decoys = decoys,
                                                ![t].navailable = Cardinality(Available(users)),
                                                ![t].songs_display = shown,
                                                ![t].result = "ok"]
                                  /\ StoreRound(t, target, decoys, shown)
                          ELSE /\ inv' = [inv EXCEPT ![t].pc = "link", ![t].users = users,
                                             ![t].target = target, ![t].decoys = decoys,
                                             ![t].navailable = Cardinality(Available(users))]
                               /\ UNCHANGED <<active_game, stores>>
  /\ UNCHANGED <<sheet, guessing, views>>

\* what the search of get_track_info can do: return a track, return no
\* item, or raise (any exception, the EOFError of the blocked input too)
LookupOutcomes == {"found", "empty", "raised"}

\* variant: the track's dict is returned whatever the search did
get_track_info_FoundAnyway(outcome) == TRUE

\* SpotifyClient.get_track_info, lines 403-423: the track's dict (TRUE) when
\* the search has an item, None (FALSE) when it has none or anything raised
get_track_info(outcome) == outcome = "found"

\* lines 961-975: one lookup returns; after the last one the round is stored.
\* lookups is an observation: which lookups found a track.
RandomLink(t) ==
  /\ inv[t].pc = "link"
  /\ \E outcome \in LookupOutcomes :
       LET info == get_track_info(outcome)
           k == Len(inv[t].songs_display) + 1
           shown == Append(inv[t].songs_display, Display(Songs(inv[t].target)[k], info))
           seen == Append(inv[t].lookups, outcome = "found")
       IN IF k = Len(Songs(inv[t].target))
          THEN /\ inv' = [inv EXCEPT ![t].pc = "done", ![t].songs_display = shown,
                                     ![t].result = "ok", ![t].lookups = seen]
               /\ StoreRound(t, inv[t].target, inv[t].decoys, shown)
          ELSE /\ inv' = [inv EXCEPT ![t].songs_display = shown, ![t].lookups = seen]
               /\ UNCHANGED <<active_game, stores>>
  /\ UNCHANGED <<sheet, game_history, guessing, views, chosen>>

\* variant: the reset drops the active round as well
ResetGame_DropsRound ==
  /\ game_history # {}
  /\ game_history' = {}
  /\ chosen' = <<>>
  /\ active_game' = NoGame
  /\ UNCHANGED <<sheet, inv, guessing, views, stores>>

\* resetgame, lines 987-991, and GameHistoryManager.reset
ResetGame ==
  /\ game_history # {}
  /\ game_history' = {}
  /\ chosen' = <<>>
  /\ UNCHANGED <<sheet, active_game, inv, guessing, views, stores>>

\* the spreadsheets of a run: enough names to play, or one too few.  Names
\* are interchangeable, so a spreadsheet is given by how many it lists.  The
\* history a run starts with (it outlives the process in MongoDB) holds
\* nothing or every name; the others come about by picking.
Sheets == {1..n : n \in (MinUsers - 1)..NNames}
Histories(S) == {{}, S}

\* no gateway call is running, the client was created or not, and no command
\* of the game has arrived yet
GameIdle ==
  /\ playlist = <<>>
  /\ pc = [t \in Threads |-> "idle"]
  /\ op = [t \in Threads |-> "none"]
  /\ attempts = [t \in Threads |-> 0]
  /\ song_query = [t \in Threads |-> <<>>]
  /\ artist_query = [t \in Threads |-> <<>>]
  /\ track = [t \in Threads |-> NoTrack]
  /\ all_items = [t \in Threads |-> <<>>]
  /\ rattempt = [t \in Threads |-> 0]
  /\ result = [t \in Threads |-> "none"]
  /\ fails = [t \in Threads |-> <<>>]
  /\ bodies = [t \in Threads |-> 0]
  /\ nrefresh = [t \in Threads |-> 0]
  /\ rlog = [t \in Threads |-> <<>>]
  /\ addCalls = [t \in Threads |-> 0]
  /\ wasPresent = [t \in Threads |-> FALSE]
  /\ exhausted = FALSE
  /\ invalidAtStart = [t \in Threads |-> FALSE]
  /\ twice = [n |-> 0, pl0 |-> <<>>, track |-> NoTrack, result |-> "none"]
  /\ record = NoToken
  /\ env_token = NoToken
  /\ force_reset = FALSE
  /\ mongo = "up"
  /\ handler = "mongo"
  \* SpotifyClient() succeeded at start-up, or failed and left None (line 450)
  /\ spotify \in {"client", "none"}
  /\ cache_file = NoToken
  /\ got = NoToken
  /\ last = NoOp
  /\ active_game = NoGame
  /\ inv = [t \in Tasks |-> IdleInv]
  /\ guessing = [g \in Guessers |-> IdleGuess]
  /\ views = <<>>
  /\ chosen = <<>>
  /\ stores = <<>>

InitRound ==
  /\ GameIdle
  /\ sheet \in Sheets
  /\ game_history \in Histories(sheet)
  /\ csv_rows = <<>>
  /\ game_data = NotFetched

NextRound ==
  \/ \E t \in Tasks : RandomStart(t) /\ UNCHANGED <<gateway, record, env_token, cacheVars, fetchVars>>
  \/ \E t \in Tasks : RandomPick(t) /\ UNCHANGED <<gateway, record, env_token, cacheVars, fetchVars>>
  \/ \E t \in Tasks : RandomLink(t) /\ UNCHANGED <<gateway, record, env_token, cacheVars, fetchVars>>
  \/ ResetGame /\ UNCHANGED <<gateway, record, env_token, cacheVars, fetchVars>>

SpecRound == InitRound /\ [][NextRound]_vars

\* ---------------------------------------------------------------------
\* C23: in every reachable state the active round is absent, or it has a
\* target name, exactly 4 pairwise distinct candidate names of which one is
\* the target, and the song list of that same target: never parts of two
\* generations.
RoundIsWhole ==
  active_game # NoGame =>
    LET g == active_game IN
    /\ g.target_name \in Names
    /\ BagCardinality(g.options) = 4
    /\ \A n \in BagToSet(g.options) : CopiesIn(n, g.options) = 1
    /\ BagIn(g.target_name, g.options)
    /\ Len(g.songs_display) = NSongs
    /\ \A k \in 1..Len(g.songs_display) : g.songs_display[k].song = <<g.target_name, k>>

\* a second round has replaced a first one with another target
RoundIsWholeSeen ==
  /\ Len(stores) = 2
  /\ inv[1].target # inv[2].target
  /\ active_game # NoGame

\* ---------------------------------------------------------------------
\* the invocations that have stored a round
Stored == {stores[i] : i \in 1..Len(stores)}

\* C21 as stated: /random fails, and stores no round, whenever fewer than 4
\* records are supplied or fewer than 4 of them have unused names.
StartRoundNeedsFourUnused ==
  \A t \in Tasks :
    (inv[t].pc = "done" /\ (Cardinality(inv[t].users) < 4 \/ inv[t].navailable < 4))
      => (inv[t].result # "ok" /\ t \notin Stored)

\* C21, amended: /random fails exactly when fewer than 4 records are supplied
\* (not enough data) or when 4 or more are supplied and none of them has an
\* unused name (all picked); one unused name is enough to succeed.  A failed
\* /random has stored no round.
StartRoundNeedsOneUnused ==
  \A t \in Tasks :
    inv[t].pc = "done" =>
      /\ inv[t].result = "too_few" <=> Cardinality(inv[t].users) < 4
      /\ inv[t].result = "all_picked" <=>
           (Cardinality(inv[t].users) >= 4 /\ inv[t].navailable = 0)
      /\ inv[t].result = "ok" <=>
           (Cardinality(inv[t].users) >= 4 /\ inv[t].navailable >= 1)
      /\ inv[t].result # "ok" => t \notin Stored

\* 4 records, the first /random has used one name, the next one succeeds
\* with 3 names left
StartRoundNeedsOneUnusedSeen ==
  \E t \in Tasks :
    /\ Len(stores) = 2
    /\ stores[2] = t
    /\ inv[t].result = "ok"
    /\ Cardinality(inv[t].users) = 4
    /\ inv[t].navailable = 3

\* ---------------------------------------------------------------------
\* C22: between two resets no name is chosen as target twice.  The name a
\* /random picks is unused when it is picked and is used at the end of the
\* same step, before the round is stored, also when two invocations
\* interleave.
TargetIsFresh ==
  [][/\ \A t \in Tasks :
          inv'[t].target # inv[t].target =>
            /\ inv'[t].target \notin game_history
            /\ inv'[t].target \in game_history'
            /\ t \notin Stored
     /\ \A i, j \in 1..Len(chosen') : i # j => chosen'[i] # chosen'[j]]_vars

\* two invocations have picked and neither has stored its round yet
TargetIsFreshSeen ==
  /\ inv[1].pc = "link"
  /\ inv[2].pc = "link"
  /\ Len(chosen) = 2
  /\ stores = <<>>

\* ---------------------------------------------------------------------
\* C26: when two /random invocations have both stored (no reset since the
\* first of them picked), the active round is the whole round of the one
\* that stored last, nothing of the other round is left, and both targets
\* are in the history.
LastStoreWins ==
  (Len(stores) = 2 /\ Len(chosen) = 2) =>
    LET w == inv[stores[2]] IN
    /\ active_game.target_name = w.target
    /\ active_game.options = SetToBag({w.target} \cup w.decoys)
    /\ active_game.songs_display = w.songs_display
    /\ {inv[1].target, inv[2].target} \subseteq game_history

\* the invocation that picked first stored last: the two overlapped, and
\* their rounds differ in the candidate names
LastStoreWinsSeen ==
  /\ Len(chosen) = 2
  /\ chosen[1] = inv[1].target
  /\ stores = <<2, 1>>
  /\ inv[1].decoys \cup {inv[1].target} # inv[2].decoys \cup {inv[2].target}

\* ======================================================================
\* The guessing game: /guess opens a poll (a GuessGameView) for the active
\* round.
\* ======================================================================

Voters == 1..NVoters
NoClick == [uid |-> 0, label |-> NoName]

\* variant: the view is built without the round's target
GuessGameView_NoAnswer(correct_answer, options) ==
  [correct_answer |-> NoName, options |-> options, votes |-> <<>>, message |-> FALSE,
   stopped |-> FALSE, idle |-> 0, age |-> 0, shown |-> <<>>, winners |-> <<>>,
   round |-> Len(stores), click |-> NoClick, late |-> FALSE]

\* GuessGameView.__init__, lines 612-619: one button per option, no votes, the
\* timeout not yet running.  Observations: round, how many rounds had been
\* stored when the view was built; age, the ticks since then; click, the
\* latest click a callback has handled; late, a click came after the end.
GuessGameView(correct_answer, options) ==
  [correct_answer |-> correct_answer, options |-> options, votes |-> <<>>,
   message |-> FALSE, stopped |-> FALSE, idle |-> 0, age |-> 0, shown |-> <<>>,
   winners |-> <<>>, round |-> Len(stores), click |-> NoClick, late |-> FALSE]

\* lines 998-1002: without a round the command answers and returns; with one
\* it defers its response, which suspends it
GuessCheck(g) ==
  /\ guessing[g].pc = "idle"
  /\ IF active_game = NoGame
     THEN guessing' = [guessing EXCEPT ![g].pc = "done", ![g].result = "no_game"]
     ELSE guessing' = [guessing EXCEPT ![g].pc = "deferred"]
  /\ UNCHANGED <<sheet, game_history, active_game, inv, views, chosen, stores>>

\* lines 1004-1016: the view is built from the global as it is now, sent (the
\* library starts the view's timeout when the message is stored) and given
\* its message
GuessSend(g) ==
  /\ guessing[g].pc = "deferred"
  /\ LET view == GuessGameView(active_game.target_name, active_game.options)
     IN views' = Append(views, [view EXCEPT !.message = TRUE])
  /\ guessing' = [guessing EXCEPT ![g].pc = "done", ![g].result = "ok"]
  /\ UNCHANGED <<sheet, game_history, active_game, inv, chosen, stores>>

InitGuess ==
  /\ InitRound
  /\ sheet = Names
  /\ game_history = {}
  \* no Spotify client: a /random stores its round without suspending again
  /\ spotify = "none"

NextGuess ==
  \/ \E t \in Tasks : RandomStart(t) /\ UNCHANGED <<gateway, record, env_token, cacheVars, fetchVars>>
  \/ \E t \in Tasks : RandomPick(t) /\ UNCHANGED <<gateway, record, env_token, cacheVars, fetchVars>>
  \/ \E g \in Guessers : GuessCheck(g) /\ UNCHANGED <<gateway, record, env_token, cacheVars, fetchVars>>
  \/ \E g \in Guessers : GuessSend(g) /\ UNCHANGED <<gateway, record, env_token, cacheVars, fetchVars>>

SpecGuess == InitGuess /\ [][NextGuess]_vars

\* ---------------------------------------------------------------------
\* C24: /guess consumes the active round: once a poll has been opened and no
\* /random has stored a round since, there is no active round, and no two
\* polls are opened for the same round.
StartVoteConsumesRound ==
  /\ (views # <<>> /\ views[Len(views)].round = Len(stores)) => active_game = NoGame
  /\ \A i, j \in 1..Len(views) : i # j => views[i].round # views[j].round

\* ---------------------------------------------------------------------
\* C25: /guess without an active round answers "no active game" and opens
\* no poll; with an active round the poll it opens has that round's
\* candidate names as options and that round's target as correct answer.
StartVoteUsesActiveRound ==
  [][/\ \A g \in Guessers :
          (guessing[g].pc = "idle" /\ guessing'[g].pc # "idle" /\ active_game = NoGame)
            => (guessing'[g].result = "no_game" /\ views' = views)
     /\ \A g \in Guessers : guessing[g].result = "no_game" => guessing'[g].pc = "done"
     /\ Len(views') > Len(views) =>
          /\ active_game # NoGame
          /\ views'[Len(views')].options = active_game.options
          /\ views'[Len(views')].correct_answer = active_game.target_name
          /\ views'[Len(views')].votes = <<>>]_vars

\* one /guess was refused before any round, another has opened a poll for a
\* round that replaced the one it had found
StartVoteUsesActiveRoundSeen ==
  /\ guessing[1].result = "no_game"
  /\ guessing[2].result = "ok"
  /\ Len(stores) = 2
  /\ views # <<>>
  /\ views[1].round = 2
  /\ inv[1].decoys \cup {inv[1].target} # inv[2].decoys \cup {inv[2].target}

\* ======================================================================
\* The guessing game: votes on a poll and its end.  The view's votes are a
\* Python dict, kept here as the sequence of its entries in insertion order.
\* ======================================================================

\* user_id in view.votes
HasKey(votes, uid) == \E i \in 1..Len(votes) : votes[i].uid = uid

\* view.votes[user_id]
VoteOf(votes, uid) ==
  IF HasKey(votes, uid)
  THEN votes[CHOOSE i \in 1..Len(votes) : votes[i].uid = uid].vote
  ELSE NoName

\* variant: every assignment adds an entry
DictSet_Append(votes, uid, label) == Append(votes, [uid |-> uid, vote |-> label])

\* view.votes[user_id] = self.label: the entry of the key is replaced where it
\* is, a new key is added at the end
DictSet(votes, uid, label) ==
  IF HasKey(votes, uid)
  THEN [i \in 1..Len(votes) |->
          IF votes[i].uid = uid THEN [uid |-> uid, vote |-> label] ELSE votes[i]]
  ELSE Append(votes, [uid |-> uid, vote |-> label])

\* GuessButton.callback, lines 598-610
callback(view, uid, label) ==
  IF HasKey(view.votes, uid)
  THEN IF VoteOf(view.votes, uid) = label
       THEN view
       ELSE [view EXCEPT !.votes = DictSet(view.votes, uid, label)]
  ELSE [view EXCEPT !.votes = DictSet(view.votes, uid, label)]

\* variant: clicks reach the callback after the view has ended
Dispatched_Always(view) == TRUE

\* discord.ui.View with timeout=30 (line 614): the library hands a click to
\* the button's callback only while the view has not ended
Dispatched(view) == ~view.stopped

\* variant: all views share one votes dict
Vote_SharedVotes(i, uid, label) ==
  /\ i \in 1..Len(views)
  /\ BagIn(label, views[i].options)
  /\ IF Dispatched(views[i])
     THEN views' = [j \in 1..Len(views) |->
                      IF j = i
                      THEN [callback(views[j], uid, label) EXCEPT
                              !.idle = 0, !.click = [uid |-> uid, label |-> label]]
                      ELSE callback(views[j], uid, label)]
     ELSE views' = [views EXCEPT ![i].late = TRUE]
  /\ UNCHANGED <<sheet, game_history, active_game, inv, guessing, chosen, stores>>

\* a user clicks the button label of poll i.  The library restarts the
\* view's timeout at every click it hands on, then runs the callback, which
\* changes view.votes before its only await.
Vote(i, uid, label) ==
  /\ i \in 1..Len(views)
  /\ BagIn(label, views[i].options)
  /\ IF Dispatched(views[i])
     THEN views' = [views EXCEPT ![i] =
                      [callback(views[i], uid, label) EXCEPT
                         !.idle = 0, !.click = [uid |-> uid, label |-> label]]]
     ELSE views' = [views EXCEPT ![i].late = TRUE]
  /\ UNCHANGED <<sheet, game_history, active_game, inv, guessing, chosen, stores>>

\* the clock advances by one tick; a view that has been idle for its whole
\* timeout ends before the clock goes on
Tick ==
  /\ \E i \in 1..Len(views) : ~views[i].stopped
  /\ \A i \in 1..Len(views) : ~views[i].stopped => views[i].idle < Window
  /\ views' = [i \in 1..Len(views) |->
                 IF views[i].stopped THEN views[i]
                 ELSE [views[i] EXCEPT !.idle = @ + 1,
                                       !.age = IF @ > Window THEN @ ELSE @ + 1]]
  /\ UNCHANGED <<sheet, game_history, active_game, inv, guessing, chosen, stores>>

\* dict.get(key, default)
Get(dict, key, default) == IF key \in DOMAIN dict THEN dict[key] ELSE default

\* lines 626-628: vote_counts[vote] = vote_counts.get(vote, 0) + 1 over
\* self.votes.values()
RECURSIVE VoteCounts(_)
VoteCounts(votes) ==
  IF votes = <<>> THEN <<>>
  ELSE LET vote_counts == VoteCounts(SubSeq(votes, 1, Len(votes) - 1))
           vote == votes[Len(votes)].vote
       IN [n \in DOMAIN vote_counts \cup {vote} |->
             IF n = vote THEN Get(vote_counts, vote, 0) + 1 ELSE vote_counts[n]]

\* variant: the count is looked up after the label has been rewritten, under
\* a key vote_counts does not have
Shown_Relabelled(view) ==
  [label \in BagToSet(view.options) |->
     [count |-> Get(VoteCounts(view.votes), NoName, 0),
      correct |-> label = view.correct_answer]]

\* lines 631-640: every button gets its count in its label, the correct one
\* "label (Correct! - count)", the others "label (count)"
Shown(view) ==
  [label \in BagToSet(view.options) |->
     [count |-> Get(VoteCounts(view.votes), label, 0),
      correct |-> label = view.correct_answer]]

\* line 643
RECURSIVE Winners(_, _)
Winners(votes, correct_answer) ==
  IF votes = <<>> THEN <<>>
  ELSE LET rest == Winners(SubSeq(votes, 1, Len(votes) - 1), correct_answer)
           e == votes[Len(votes)]
       IN IF e.vote = correct_answer THEN Append(rest, e.uid) ELSE rest

\* the view has been idle for its timeout: the library ends it and runs
\* on_timeout, lines 621-654
on_timeout(i) ==
  /\ i \in 1..Len(views)
  /\ ~views[i].stopped
  /\ views[i].idle = Window
  /\ IF ~views[i].message
     THEN views' = [views EXCEPT ![i].stopped = TRUE]
     ELSE views' = [views EXCEPT ![i].stopped = TRUE,
                                 ![i].shown = Shown(views[i]),
                                 ![i].winners = Winners(views[i].votes,
                                                        views[i].correct_answer)]
  /\ UNCHANGED <<sheet, game_history, active_game, inv, guessing, chosen, stores>>

InitVote ==
  /\ InitRound
  /\ sheet = 1..MinUsers
  /\ game_history = {}
  /\ spotify = "none"

NextVote ==
  \/ RandomStart(1) /\ UNCHANGED <<gateway, record, env_token, cacheVars, fetchVars>>
  \/ RandomPick(1) /\ UNCHANGED <<gateway, record, env_token, cacheVars, fetchVars>>
  \/ GuessCheck(1) /\ UNCHANGED <<gateway, record, env_token, cacheVars, fetchVars>>
  \/ GuessSend(1) /\ UNCHANGED <<gateway, record, env_token, cacheVars, fetchVars>>
  \/ \E i \in 1..Len(views), uid \in Voters, label \in Names :
       Vote(i, uid, label) /\ UNCHANGED <<gateway, record, env_token, cacheVars, fetchVars>>
  \/ Tick /\ UNCHANGED <<gateway, record, env_token, cacheVars, fetchVars>>
  \/ \E i \in 1..Len(views) : on_timeout(i) /\ UNCHANGED <<gateway, record, env_token, cacheVars, fetchVars>>

SpecVote == InitVote /\ [][NextVote]_vars

\* ---------------------------------------------------------------------
\* C27: in a poll each voter has at most one stored vote, a vote replaces
\* the voter's stored choice and nobody else's, a repeated vote for the
\* stored choice changes nothing, and every stored choice is one of the
\* poll's candidate names.
VotesAreLastWrite ==
  [][\A i \in 1..Len(views') :
       LET w == views'[i] IN
       /\ \A a, b \in 1..Len(w.votes) : a # b => w.votes[a].uid # w.votes[b].uid
       /\ \A a \in 1..Len(w.votes) : BagIn(w.votes[a].vote, w.options)
       /\ w.click # NoClick => VoteOf(w.votes, w.click.uid) = w.click.label
       /\ i <= Len(views) =>
            /\ \A u \in Voters \ {w.click.uid} :
                 VoteOf(w.votes, u) = VoteOf(views[i].votes, u)
            /\ VoteOf(views[i].votes, w.click.uid) = w.click.label
                 => w.votes = views[i].votes]_vars

\* both voters have voted and the one who voted first has changed the vote
VotesAreLastWriteSeen ==
  \E i \in 1..Len(views) :
    /\ Len(views[i].votes) = 2
    /\ views[i].click.uid = views[i].votes[1].uid
    /\ views[i].votes[1].vote # views[i].votes[2].vote
    /\ ~views[i].stopped

\* ---------------------------------------------------------------------
\* C28: once a poll's timeout has fired the poll is closed for good: no
\* later click changes the stored votes, the reported counts or the winners,
\* and the poll does not reopen.
ClosedStaysClosed ==
  [][\A i \in 1..Len(views) :
       views[i].stopped =>
         /\ views'[i].stopped
         /\ views'[i].votes = views[i].votes
         /\ views'[i].shown = views[i].shown
         /\ views'[i].winners = views[i].winners]_vars

\* a click has come in after the poll ended
ClosedStaysClosedSeen ==
  \E i \in 1..Len(views) :
    /\ views[i].stopped
    /\ views[i].late
    /\ views[i].votes # <<>>

\* ---------------------------------------------------------------------
\* C29: a poll's voting window is fixed: the poll is closed once 30 seconds
\* have passed since it was created, whatever votes were cast.
PollClosesOnTime ==
  \A i \in 1..Len(views) : ~views[i].stopped => views[i].age <= Window

\* ---------------------------------------------------------------------
\* the voters whose stored choice is the name n
VotersFor(votes, n) == {u \in Voters : HasKey(votes, u) /\ VoteOf(votes, u) = n}

RECURSIVE Total(_, _)
Total(f, S) ==
  IF S = {} THEN 0
  ELSE LET x == CHOOSE x \in S : TRUE IN f[x].count + Total(f, S \ {x})

\* C30: at poll close the count shown for each candidate is the number of
\* voters whose stored choice is that candidate (0 without votes), the
\* counts add up to the number of voters who voted, and the winners are
\* exactly the voters whose stored choice is the target name.
TallyIsExact ==
  \A i \in 1..Len(views) :
    views[i].stopped =>
      LET w == views[i] IN
      /\ DOMAIN w.shown = BagToSet(w.options)
      /\ \A n \in DOMAIN w.shown :
           /\ w.shown[n].count = Cardinality(VotersFor(w.votes, n))
           /\ w.shown[n].correct <=> n = w.correct_answer
      /\ Total(w.shown, DOMAIN w.shown) = Cardinality({u \in Voters : HasKey(w.votes, u)})
      /\ {w.winners[k] : k \in 1..Len(w.winners)} = VotersFor(w.votes, w.correct_answer)
      /\ Len(w.winners) = Cardinality(VotersFor(w.votes, w.correct_answer))

\* a closed poll in which both voters chose the same wrong name, one of them
\* after first choosing another
TallyIsExactSeen ==
  \E i \in 1..Len(views) :
    LET w == views[i] IN
    /\ w.stopped
    /\ Len(w.votes) = 2
    /\ w.votes[1].vote = w.votes[2].vote
    /\ w.votes[1].vote # w.correct_answer
    /\ w.click.uid = w.votes[1].uid
    /\ w.winners = <<>>

\* ======================================================================
\* The guessing game as a whole: rounds, resets, polls and votes side by
\* side.  One user votes, in every poll there is.
\* ======================================================================
InitFrame ==
  /\ InitRound
  \* one name more than a round needs, so that two rounds can differ in their
  \* candidate names
  /\ sheet = 1..(MinUsers + 1)
  /\ game_history = {}
  /\ spotify = "none"

NextFrame ==
  \/ \E t \in Tasks : RandomStart(t) /\ UNCHANGED <<gateway, record, env_token, cacheVars, fetchVars>>
  \/ \E t \in Tasks : RandomPick(t) /\ UNCHANGED <<gateway, record, env_token, cacheVars, fetchVars>>
  \/ ResetGame /\ UNCHANGED <<gateway, record, env_token, cacheVars, fetchVars>>
  \/ \E g \in Guessers : GuessCheck(g) /\ UNCHANGED <<gateway, record, env_token, cacheVars, fetchVars>>
  \/ \E g \in Guessers : GuessSend(g) /\ UNCHANGED <<gateway, record, env_token, cacheVars, fetchVars>>
  \/ \E i \in 1..Len(views), label \in Names :
       Vote(i, 1, label) /\ UNCHANGED <<gateway, record, env_token, cacheVars, fetchVars>>

SpecFrame == InitFrame /\ [][NextFrame]_vars

\* ---------------------------------------------------------------------
\* C31: /resetgame empties the history completely, so that every record is
\* available again, and leaves the active round and every poll as they are;
\* no other operation removes a name from the history.
ResetEmptiesHistory ==
  [][~(game_history \subseteq game_history') =>
       /\ game_history' = {}
       /\ \A n \in sheet : n \notin game_history'
       /\ active_game' = active_game
       /\ views' = views
       /\ inv' = inv]_vars

\* after a reset the name that was the target before is the target again,
\* while the poll of the earlier round has a vote
ResetEmptiesHistorySeen ==
  /\ inv[1].target = inv[2].target
  /\ inv[1].target # NoName
  /\ game_history = {inv[1].target}
  /\ views # <<>>
  /\ views[1].round = 1
  /\ views[1].votes # <<>>

\* ---------------------------------------------------------------------
\* C35: a poll's candidate names and correct answer are fixed when it is
\* created: no later /random or /resetgame (nor any other step) changes
\* them, and a vote in one poll leaves the votes of every other poll alone.
PollIsFixed ==
  [][/\ Len(views') >= Len(views)
     /\ \A i \in 1..Len(views) :
          /\ views'[i].options = views[i].options
          /\ views'[i].correct_answer = views[i].correct_answer
          /\ views'[i].round = views[i].round
          /\ views'[i].votes # views[i].votes =>
               \A j \in 1..Len(views) : j # i => views'[j].votes = views[j].votes]_vars

\* two polls for two rounds that differ in target and candidate names, the
\* second round stored while the first poll was open, each poll with its
\* own vote, and the history reset since
PollIsFixedSeen ==
  /\ Len(views) = 2
  /\ views[1].round = 1
  /\ views[2].round = 2
  /\ views[1].correct_answer # views[2].correct_answer
  /\ views[1].options # views[2].options
  /\ views[1].votes # <<>>
  /\ views[2].votes # <<>>
  /\ views[1].votes # views[2].votes
  /\ game_history = {}

\* ======================================================================
\* fetch_game_data: from the rows of the spreadsheet to the records of the
\* game.  A row's name is the name as typed, an identifier and whether it is
\* padded with blanks; its songs are 0 (no song cell filled) or the number
\* of the version of the song list.
\* ======================================================================
NoSongs == 0
Row(n, padded, songs) == [name |-> <<n, padded>>, songs |-> songs]

\* str.strip()
strip(name) == name[1]

\* lines 542-582: rows without a name or without a song are left out, the
\* name is stripped
RECURSIVE Parsed(_)
Parsed(rows) ==
  IF rows = <<>> THEN <<>>
  ELSE LET users == Parsed(SubSeq(rows, 1, Len(rows) - 1))
           row == rows[Len(rows)]
       IN IF strip(row.name) = NoName THEN users
          ELSE IF row.songs = NoSongs THEN users
          ELSE Append(users, [name |-> strip(row.name), songs |-> row.songs])

\* variant: a name that is already there keeps its first record
Put_KeepFirst(unique_map, u) ==
  IF \E i \in 1..Len(unique_map) : unique_map[i].name = u.name
  THEN unique_map
  ELSE Append(unique_map, u)

\* one step of the dict comprehension of line 585: a name that is already a
\* key gets the new record in its place, a new name goes to the end
Put(unique_map, u) ==
  IF \E i \in 1..Len(unique_map) : unique_map[i].name = u.name
  THEN [i \in 1..Len(unique_map) |->
          IF unique_map[i].name = u.name THEN u ELSE unique_map[i]]
  ELSE Append(unique_map, u)

\* lines 584-586: {u['name']: u for u in users}, then list(values())
RECURSIVE Unique(_)
Unique(users) ==
  IF users = <<>> THEN <<>>
  ELSE Put(Unique(SubSeq(users, 1, Len(users) - 1)), users[Len(users)])

fetch_game_data(rows) == Unique(Parsed(rows))

\* the names of the records
NamesOf(users) == {users[i].name : i \in 1..Len(users)}

\* the spreadsheets: one row for each of n names, then up to MaxExtra more
\* rows, each for one of these names (padded or not) or for none, with a
\* newer song list or with none
ExtraRows(n) ==
  {Row(m, padded, songs) : m \in 0..n, padded \in BOOLEAN, songs \in {NoSongs, 2}}
BaseRows(n) == [i \in 1..n |-> Row(i, FALSE, 1)]
Spreadsheets ==
  UNION {{BaseRows(n) \o extra : extra \in UNION {[1..k -> ExtraRows(n)] : k \in 0..MaxExtra}} :
           n \in (MinUsers - 1)..(MinUsers + 1)}

InitFetch ==
  /\ GameIdle
  /\ game_data = NotFetched
  /\ csv_rows \in Spreadsheets
  /\ sheet = NamesOf(fetch_game_data(csv_rows))
  /\ game_history = {}
  /\ spotify = "none"

\* fetch_game_data returns to random_songs (line 934)
FetchGameData ==
  /\ inv[1].pc = "fetch"
  /\ ~game_data.done
  /\ game_data' = [done |-> TRUE, users |-> fetch_game_data(csv_rows)]
  /\ UNCHANGED <<sheet, game_history, active_game, inv, guessing, views, chosen, stores,
                 csv_rows>>

NextFetch ==
  \/ RandomStart(1) /\ UNCHANGED <<gateway, record, env_token, cacheVars, fetchVars>>
  \/ FetchGameData /\ UNCHANGED <<gateway, record, env_token, cacheVars>>
  \/ /\ game_data.done
     /\ RandomPick(1)
     /\ UNCHANGED <<gateway, record, env_token, cacheVars, fetchVars>>

SpecFetch == InitFetch /\ [][NextFetch]_vars

\* ---------------------------------------------------------------------
\* the rows that make a record: a name that is not blank and a song
IsRecord(row) == row.name[1] # NoName /\ row.songs # NoSongs

\* C32: the records /random works with have pairwise distinct names; of
\* several records with the same name only the latest in input order is
\* kept, so that a name that is repeated counts once and the round proceeds
\* as without the repetition.
DedupeKeepsLatest ==
  game_data.done =>
    LET users == game_data.users IN
    /\ \A i, j \in 1..Len(users) : i # j => users[i].name # users[j].name
    /\ {users[i].name : i \in 1..Len(users)} =
         {csv_rows[r].name[1] : r \in {r \in 1..Len(csv_rows) : IsRecord(csv_rows[r])}}
    /\ \A i \in 1..Len(users) :
         \E r \in 1..Len(csv_rows) :
           /\ IsRecord(csv_rows[r])
           /\ csv_rows[r].name[1] = users[i].name
           /\ csv_rows[r].songs = users[i].songs
           /\ \A q \in (r + 1)..Len(csv_rows) :
                IsRecord(csv_rows[q]) => csv_rows[q].name[1] # users[i].name
    /\ (inv[1].pc = "done" /\ inv[1].users # {}) =>
         /\ inv[1].users = {users[i].name : i \in 1..Len(users)}
         /\ inv[1].result = "ok" <=> Len(users) >= 4

\* 5 names, the last of them in two rows: 5 records, the newer song list
\* kept, and the round stored
DedupeKeepsLatestSeen ==
  /\ game_data.done
  /\ Len(csv_rows) = 6
  /\ csv_rows[6] = [name |-> <<5, FALSE>>, songs |-> 2]
  /\ Len(game_data.users) = 5
  /\ game_data.users[5] = [name |-> 5, songs |-> 2]
  /\ inv[1].result = "ok"
  /\ active_game # NoGame

OnceStart ==
  /\ twice.n = 0
  /\ StartCall(Caller)
  /\ op'[Caller] = "add"
  /\ \E top \in Tracks :
       twice' = [n |-> 1, pl0 |-> playlist, track |-> top, result |-> "none"]
  /\ UNCHANGED <<cacheVars, gameVars>>

\* lines 258-267
OnceSearch ==
  /\ Search(Caller)
  /\ track'[Caller] # NoTrack => track'[Caller] = twice.track

NextOnce ==
  \/ OnceStart
  \/ OnceSearch
  \/ Items(Caller)
  \/ AddItems(Caller)
  \/ RefreshAttempt(Caller)

SpecOnce == Init /\ [][NextOnce]_vars

\* ---------------------------------------------------------------------
\* C34: one search_and_add_top_result call makes the playlist longer by at
\* most one entry, whatever fails, also when the first add-items request
\* took effect before its connection reset was raised.
OneCallAddsAtMostOne ==
  twice.n = 1 => Len(playlist) <= Len(twice.pl0) + 1

\* ---------------------------------------------------------------------
\* C36: when an attempt raises EOFError (the blocked input primitive), the
\* call returns the not-authenticated outcome at once, on the first attempt
\* and on the retry alike: the EOFError is the call's last failure, no
\* further attempt is made and it sets off no refresh.
EofReturnsAtOnce ==
  \A t \in Threads :
    \A i \in 1..Len(fails[t]) :
      fails[t][i] = "eof" =>
        /\ i = Len(fails[t])
        /\ pc[t] = "done"
        /\ result[t] = "NotAuthenticated"
        /\ bodies[t] = i
        /\ nrefresh[t] = IF i = 2 /\ fails[t][1] = "e401" THEN 1 ELSE 0

\* an EOFError on the retry that followed a connection reset
EofReturnsAtOnceSeen ==
  \E t \in Threads :
    /\ fails[t] = <<"reset", "eof">>
    /\ op[t] = "remove"
    /\ pc[t] = "done"
    /\ result[t] = "NotAuthenticated"

====
